---- MODULE Spec2Model ----
(***************************************************************************)
(* A model of the norsky feed generator: the posts store (db), the feed    *)
(* query builder and pagination (feeds), and the Jetstream subscription    *)
(* with its liveness watchdog (firehose, cmd/serve).                       *)
(*                                                                         *)
(* Several specifications share the module, one per subsystem; each keeps  *)
(* the variables of the other subsystems constant:                         *)
(*   SpecFeed    Feed.GetFeedPosts over a fixed store snapshot             *)
(*   SpecStore   DB.CreatePost / DB.DeletePost on the posts table          *)
(*   SpecStream  serveCmd's subscription goroutines and watchdog           *)
(*   SpecDial    the connection loop of the subscriptions alone            *)
(*   SpecPipe    reader goroutine, worker queue and workers                *)
(*   SpecQuery, SpecScore   the feed query builder and its scoring         *)
(*   SpecConfig, SpecProcess   feed configuration and post processing      *)
(*   SpecLimit, SpecKeyword, SpecLetters, SpecRepeat, SpecSpam,            *)
(*   SpecCascade, SpecDetect, SpecSQL   one call of a function each        *)
(*   SpecDeadline   the read deadline and the ping ticker of a connection  *)
(*   SpecResume  the cursor computed when the subscriber starts again      *)
(*   SpecCast    the SSE Broadcaster                                       *)
(*   SpecCmd     the shutdown of the subscribe command                     *)
(***************************************************************************)
EXTENDS Integers, Sequences, FiniteSets, TLC

(***************************************************************************)
(* Bounds of the model.                                                    *)
(***************************************************************************)
\* number of rows a store snapshot of SpecFeed holds at most
MaxPosts == 3
\* largest limit a feed request carries in SpecFeed
MaxLimit == 2
\* number of CreatePost calls of a behaviour of SpecStore
MaxSeq == 3
\* number of Subscribe calls of a behaviour of SpecStream, the first included
MaxSubs == 2
\* largest number of configured Jetstream hosts
MaxHosts == 2
\* capacity of a worker queue (stands for the 1000 of Subscribe)
QueueCap == 1
\* number of workers of a parallel processor (stands for the 10 of Subscribe)
NumWorkers == 2
\* steps after which the backoff interval has reached its cap
MaxBackoff == 2
\* capacity of postChan (1000 in serveCmd)
PostChanCap == 1
\* filters added to one query builder
MaxFilters == 2
\* rows of the table under the query builder
MaxQueryRows == 2
\* feeds of one configuration
MaxFeeds == 2
\* scoring layers of one feed in SpecScore
MaxLayers == 2
\* characters of the limit parameter of a request in SpecLimit
MaxLimitLen == 3
\* characters of a keyword in SpecKeyword
MaxTokenLen == 3
\* code points of a text in SpecLetters
MaxTextLen == 4
\* code points of a text in SpecRepeat, and of the pattern a text repeats
MaxRepeatLen == 5
MaxPatternLen == 4
\* repetitions of a word in a text of SpecSpam
MaxWords == 9
\* frames the upstream sends in SpecPipe
MaxFrames == 3
\* the clock of SpecDeadline stops here, in units of ten seconds
MaxTime == 14
\* events the upstream sends in SpecResume, and the seconds between two
MaxEvents == 3
EventGap == 4
\* SSE clients in SpecCast, and the buffer of a client channel (stands for
\* the 10 of the SSE handler)
MaxClients == 2
SseChanCap == 1
\* words of a text in SpecCascade
MaxTextWords == 4
\* upstream time of the first event, in seconds since the epoch
FirstEventTime == 100

(***************************************************************************)
(* Values.                                                                 *)
(* A Go string that matters as text (a cursor) is a sequence of one-       *)
(* character strings.  A nullable value (Go *string, SQL NULL) is a        *)
(* sequence of length 0 (nil / NULL) or 1 (the value).                     *)
(***************************************************************************)
None == <<>>
Some(v) == <<v>>

DigitChars == <<"0", "1", "2", "3", "4", "5", "6", "7", "8", "9">>

IsDigit(c) == \E d \in 1..10 : DigitChars[d] = c

DigitVal(c) == (CHOOSE d \in 1..10 : DigitChars[d] = c) - 1

RECURSIVE FormatUint(_)
FormatUint(n) ==
    IF n < 10 THEN <<DigitChars[n + 1]>>
    ELSE Append(FormatUint(n \div 10), DigitChars[(n % 10) + 1])

\* strconv.FormatInt(n, 10)
FormatInt(n) == IF n < 0 THEN <<"-">> \o FormatUint(0 - n) ELSE FormatUint(n)

RECURSIVE ParseDigits(_, _)
ParseDigits(s, acc) ==
    IF s = <<>> THEN acc
    ELSE ParseDigits(Tail(s), acc * 10 + DigitVal(Head(s)))

\* strconv.ParseInt(s, 10, 64): an optional sign, then one or more decimal
\* digits.  The strings of the model are too short to leave the int64 range.
ParseInt(s) ==
    LET signed == s # <<>> /\ Head(s) \in {"+", "-"}
        body   == IF signed THEN Tail(s) ELSE s
        ok     == body # <<>> /\ \A i \in 1..Len(body) : IsDigit(body[i])
        mag    == IF ok THEN ParseDigits(body, 0) ELSE 0
    IN  [ok  |-> ok,
         val |-> IF signed /\ Head(s) = "-" THEN 0 - mag ELSE mag]

safeParseCursor(cursor) ==
    LET p == ParseInt(cursor) IN IF p.ok THEN p.val ELSE 0

(***************************************************************************)
(* The posts table as the feed query sees it.  A row carries the columns   *)
(* the built SQL reads: id, uri, created_at, languages, parent_uri.        *)
(* Time is counted in whole days.                                          *)
(***************************************************************************)
CreatedAts == {10, 13}
Languages == {<<"nb">>, <<"en">>}
ParentUris == {None, Some("at://parent")}

\* NOW() of the feed query: the day of the newest created_at there is
NowDay == CHOOSE d \in CreatedAts : \A e \in CreatedAts : e <= d

\* ids the sequence posts_id_seq has handed out, in order of insertion; an
\* upsert that hits a conflict consumes a value, so there are gaps
PostIds == <<9, 10, 12, 120, 121>>

Row(i, c, l, p) ==
    [id |-> i, uri |-> <<"at://post", i>>, created_at |-> c,
     languages |-> l, parent_uri |-> p]

\* The tables with n rows: ids are unique (BIGSERIAL PRIMARY KEY) and
\* parent_uri is NULL or non-empty (constraint parent_uri_not_empty).
TablesOf(n) ==
    LET Attr == CreatedAts \X Languages \X ParentUris
    IN  { { Row(PostIds[i], f[i][1], f[i][2], f[i][3]) : i \in 1..n } :
            f \in [1..n -> Attr] }

Snapshots == UNION { TablesOf(n) : n \in 0..MaxPosts }

(***************************************************************************)
(* Feeds: filters and scoring layers (feeds/filters.go, feeds/scoring.go)  *)
(***************************************************************************)
\* LanguageFilter.ApplyFilter: languages && $array, when the list is non-empty
LanguageFilterPass(f, r) ==
    Len(f.languages) > 0 =>
        \E i \in 1..Len(r.languages), j \in 1..Len(f.languages) :
            r.languages[i] = f.languages[j]

\* ExcludeRepliesFilter.ApplyFilter: posts.parent_uri IS NULL
ExcludeRepliesPass(f, r) == r.parent_uri = None

\* The text-search query websearch_to_tsquery('simple', s) reads from a string
\* of words: the words between two OR form one alternative, all of whose
\* words must be present; an alternative without words is dropped.
RECURSIVE websearch_to_tsquery(_, _)
websearch_to_tsquery(s, group) ==
    IF s = <<>> THEN (IF group = {} THEN {} ELSE {group})
    ELSE IF Head(s) = "OR"
         THEN (IF group = {} THEN {} ELSE {group}) \cup websearch_to_tsquery(Tail(s), {})
         ELSE websearch_to_tsquery(Tail(s), group \cup {Head(s)})

\* ts_vector @@ tsquery: some alternative has all its words in the vector
TsMatch(tsv, s) == \E g \in websearch_to_tsquery(s, {}) : g \subseteq tsv

\* KeywordFilter.ApplyFilter: one condition per non-empty keyword string
KeywordFilterPass(f, r) ==
    /\ (f.IncludeKeywords # <<>> => TsMatch(r.ts_vector, f.IncludeKeywords))
    /\ (f.ExcludeKeywords # <<>> => ~TsMatch(r.ts_vector, f.ExcludeKeywords))

ApplyFilter(f, r) ==
    CASE f.type = "language"        -> LanguageFilterPass(f, r)
      [] f.type = "exclude_replies" -> ExcludeRepliesPass(f, r)
      [] f.type = "keyword"         -> KeywordFilterPass(f, r)

\* TimeDecayScoring.ApplyScoring: (1 + age_in_days)^(-0.5), in thousandths
TimeDecayMilli == <<1000, 707, 577, 500, 447>>

TimeDecayScore(r) == TimeDecayMilli[(NowDay - r.created_at) + 1]

\* ts_rank(ts_vector, websearch_to_tsquery('simple', s)), in thousandths: 0
\* when no word of the query is in the vector, more with every word found
ts_rank(tsv, s) ==
    61 * Cardinality(UNION websearch_to_tsquery(s, {}) \cap tsv)

\* KeywordScoring.ApplyScoring: ts_rank / (1 + ts_rank), in thousandths
KeywordScore(layer, r) ==
    (1000 * ts_rank(r.ts_vector, layer.Keywords))
        \div (1000 + ts_rank(r.ts_vector, layer.Keywords))

\* A weight (Go float64) is a whole number of ten-millionths: One is 1.0,
\* Thousandth is 0.001.
One == 10000000

Thousandth == 10000

\* fmt.Sprintf("%f", weight): the weight with six decimals, in millionths
FormatWeight(weight) == (weight + 5) \div 10

RECURSIVE AuthorFactors(_, _)
\* AuthorScoring.ApplyScoring: the product of CASE WHEN author_did = did
\* THEN weight ELSE 1.0 END over the authors, in thousandths
AuthorFactors(authors, r) ==
    IF authors = <<>> THEN 1000
    ELSE ((IF r.author_did = Head(authors).DID
           THEN FormatWeight(Head(authors).Weight) \div 1000
           ELSE 1000) * AuthorFactors(Tail(authors), r)) \div 1000

ApplyScoring(layer, r) ==
    CASE layer.type = "time_decay" -> TimeDecayScore(r)
      [] layer.type = "keyword"    -> KeywordScore(layer, r)
      [] layer.type = "author"     -> AuthorFactors(layer.Authors, r)

(***************************************************************************)
(* InitializeFeeds (feeds/feeds.go): the feeds built from a configuration. *)
(* A string is a sequence of words; a keyword is a string.                 *)
(***************************************************************************)
RECURSIVE Join(_, _)
\* strings.Join(elems, sep)
Join(elems, sep) ==
    IF elems = <<>> THEN <<>>
    ELSE IF Len(elems) = 1 THEN Head(elems)
    ELSE Head(elems) \o sep \o Join(Tail(elems), sep)

RECURSIVE CollectKeywords(_, _)
\* the keywords of the referenced lists, in order; a reference to a list
\* that is not in the configuration adds nothing
CollectKeywords(refs, keywords) ==
    IF refs = <<>> THEN <<>>
    ELSE (IF Head(refs) \in DOMAIN keywords THEN keywords[Head(refs)] ELSE <<>>)
         \o CollectKeywords(Tail(refs), keywords)

createFilterStrategy(config, keywords) ==
    CASE config.Type = "language" ->
           [err |-> FALSE,
            filter |-> [type |-> "language", languages |-> config.Languages]]
      [] config.Type = "keyword" ->
           [err |-> FALSE,
            filter |-> [type |-> "keyword",
                        IncludeKeywords |->
                            Join(CollectKeywords(config.Include, keywords), <<"OR">>),
                        ExcludeKeywords |->
                            Join(CollectKeywords(config.Exclude, keywords), <<"OR">>)]]
      [] config.Type = "exclude_replies" ->
           [err |-> FALSE, filter |-> [type |-> "exclude_replies"]]
      [] OTHER -> [err |-> TRUE]

createScoringStrategy(config, keywords) ==
    CASE config.Type = "time_decay" ->
           [err |-> FALSE, strategy |-> [type |-> "time_decay"]]
      [] config.Type = "keyword" ->
           IF config.Keywords \in DOMAIN keywords
           THEN [err |-> FALSE,
                 strategy |-> [type |-> "keyword",
                               Keywords |-> Join(keywords[config.Keywords], <<"OR">>)]]
           ELSE [err |-> TRUE]
      [] config.Type = "author" ->
           [err |-> FALSE, strategy |-> [type |-> "author", Authors |-> config.Authors]]
      [] OTHER -> [err |-> TRUE]

NewFeedQueryBuilder == [filters |-> <<>>, scoringLayers |-> <<>>]

AddFilter(b, filter) == [b EXCEPT !.filters = Append(@, filter)]

\* a layer is the strategy with its weight
AddScoringLayer(b, strategy, weight) ==
    [b EXCEPT !.scoringLayers =
        Append(@, [k \in DOMAIN strategy \cup {"weight"} |->
                       IF k = "weight" THEN weight ELSE strategy[k]])]

RECURSIVE AddFilters(_, _, _)
\* the loop over feedConfig.Filters: stops at the first error
AddFilters(b, filters, keywords) ==
    IF filters = <<>> THEN [err |-> FALSE, builder |-> b]
    ELSE LET made == createFilterStrategy(Head(filters), keywords)
         IN  IF made.err THEN [err |-> TRUE]
             ELSE AddFilters(AddFilter(b, made.filter), Tail(filters), keywords)

RECURSIVE AddScoringLayers(_, _, _)
\* the loop over feedConfig.Scoring: stops at the first error
AddScoringLayers(b, scoring, keywords) ==
    IF scoring = <<>> THEN [err |-> FALSE, builder |-> b]
    ELSE LET made == createScoringStrategy(Head(scoring), keywords)
         IN  IF made.err THEN [err |-> TRUE]
             ELSE AddScoringLayers(AddScoringLayer(b, made.strategy, Head(scoring).Weight),
                                   Tail(scoring), keywords)

RECURSIVE InitializeFeedsLoop(_, _, _)
\* the loop over cfg.Feeds; feeds maps the ids done so far to their builders
InitializeFeedsLoop(feedConfigs, keywords, feeds) ==
    IF feedConfigs = <<>> THEN [err |-> FALSE, feeds |-> feeds]
    ELSE LET feedConfig == Head(feedConfigs)
             filtered   == AddFilters(NewFeedQueryBuilder, feedConfig.Filters, keywords)
             scored     == AddScoringLayers(filtered.builder, feedConfig.Scoring, keywords)
         IN  IF filtered.err \/ scored.err THEN [err |-> TRUE, feeds |-> <<>>]
             ELSE InitializeFeedsLoop(Tail(feedConfigs), keywords,
                                      (feedConfig.Id :> scored.builder) @@ feeds)

InitializeFeeds(cfg) == InitializeFeedsLoop(cfg.Feeds, cfg.Keywords, <<>>)

\* The configuration the feed requests are served under
TomlFilter(type, languages, include, exclude) ==
    [Type |-> type, Languages |-> languages, Include |-> include, Exclude |-> exclude]

TomlScoring(type, weight, keywords, authors) ==
    [Type |-> type, Weight |-> weight, Keywords |-> keywords, Authors |-> authors]

LangNo == TomlFilter("language", <<"nb", "nn">>, <<>>, <<>>)
NoReplies == TomlFilter("exclude_replies", <<>>, <<>>, <<>>)
Decay(w) == TomlScoring("time_decay", w, "", <<>>)

FeedIds == {"all", "norsk", "hot", "norskhot"}

ServedConfig ==
    [Keywords |-> <<>>,
     Feeds |-> << [Id |-> "all", Filters |-> <<>>, Scoring |-> <<>>],
                  [Id |-> "norsk", Filters |-> <<LangNo, NoReplies>>, Scoring |-> <<>>],
                  [Id |-> "hot", Filters |-> <<>>, Scoring |-> <<Decay(Thousandth)>>],
                  [Id |-> "norskhot", Filters |-> <<NoReplies, LangNo>>,
                   Scoring |-> <<Decay(2 * Thousandth)>>] >>]

\* the feed map of the running service
Feeds == InitializeFeeds(ServedConfig).feeds

(***************************************************************************)
(* FeedQueryBuilder.Build and the execution of the built statement         *)
(***************************************************************************)
\* The statement Build returns: the select list has posts.id, posts.uri and,
\* only with scoring layers, the score, whose terms carry the weights as
\* "%f" prints them; WHERE holds the filters and, for a cursor other than 0,
\* posts.id < cursor; ORDER BY and LIMIT follow.
Build(b, limit, cursor) ==
    [columns       |-> IF Len(b.scoringLayers) > 0 THEN <<"id", "uri", "score">>
                       ELSE <<"id", "uri">>,
     scoringLayers |-> [ i \in 1..Len(b.scoringLayers) |->
                           [b.scoringLayers[i] EXCEPT !.weight = FormatWeight(@)] ],
     filters       |-> b.filters,
     cursor        |-> cursor,
     orderBy       |-> IF Len(b.scoringLayers) > 0 THEN <<"score DESC", "posts.id DESC">>
                       ELSE <<"posts.id DESC">>,
     limit         |-> limit]

RECURSIVE ScoreSum(_, _)
\* the score column: the sum of weight * expression over the layers
ScoreSum(layers, r) ==
    IF layers = <<>> THEN 0
    ELSE Head(layers).weight * ApplyScoring(Head(layers), r) + ScoreSum(Tail(layers), r)

\* a WHERE clause that joins the filters' conditions by OR
WhereAnyFilter(q, r) ==
    /\ \E i \in 1..Len(q.filters) : ApplyFilter(q.filters[i], r)
    /\ (q.cursor # 0 => r.id < q.cursor)

\* WHERE clause of the statement
Where(q, r) ==
    /\ \A i \in 1..Len(q.filters) : ApplyFilter(q.filters[i], r)
    /\ (q.cursor # 0 => r.id < q.cursor)

\* ORDER BY of the statement: a sorts before b
OrderBefore(q, a, b) ==
    IF q.orderBy[1] = "score DESC"
    THEN \/ ScoreSum(q.scoringLayers, a) > ScoreSum(q.scoringLayers, b)
         \/ /\ ScoreSum(q.scoringLayers, a) = ScoreSum(q.scoringLayers, b)
            /\ a.id > b.id
    ELSE a.id > b.id

RECURSIVE SortRows(_, _)
SortRows(q, S) ==
    IF S = {} THEN <<>>
    ELSE LET first == CHOOSE r \in S : \A o \in S \ {r} : OrderBefore(q, r, o)
         IN  <<first>> \o SortRows(q, S \ {first})

Take(s, n) == SubSeq(s, 1, IF n < Len(s) THEN n ELSE Len(s))

\* The rows the database returns for the statement, in order
ExecQuery(q, tbl) ==
    Take(SortRows(q, { r \in tbl : Where(q, r) }), q.limit)

\* rows.Scan(&post.Id, &post.Uri, &post.Score)
ScanDestinations == 3

\* DB.GetFeedPosts: run the statement and scan every row into a FeedPost;
\* database/sql's Scan fails when the number of destinations differs from
\* the number of columns of the row.
DBGetFeedPosts(b, limit, cursor, tbl) ==
    LET q    == Build(b, limit, cursor)
        rows == ExecQuery(q, tbl)
    IN  IF rows # <<>> /\ Len(q.columns) # ScanDestinations
        THEN [err |-> TRUE, posts |-> <<>>]
        ELSE [err |-> FALSE,
              posts |-> [ i \in 1..Len(rows) |->
                            [id |-> rows[i].id, uri |-> rows[i].uri,
                             score |-> ScoreSum(q.scoringLayers, rows[i])] ]]

\* createPaginatedResponse without the cut: the probe row stays on the page
createPaginatedResponseKeepsProbe(posts, limit) ==
    IF Len(posts) > limit
    THEN [err |-> FALSE, feed |-> posts,
          cursor |-> Some(FormatInt(posts[Len(posts)].id))]
    ELSE [err |-> FALSE, feed |-> posts, cursor |-> None]

\* createPaginatedResponse taking the cursor before the cut: the id of the
\* probe row
createPaginatedResponseProbeCursor(posts, limit) ==
    IF Len(posts) > limit
    THEN [err |-> FALSE, feed |-> SubSeq(posts, 1, Len(posts) - 1),
          cursor |-> Some(FormatInt(posts[Len(posts)].id))]
    ELSE [err |-> FALSE, feed |-> posts, cursor |-> None]

createPaginatedResponse(posts, limit) ==
    IF Len(posts) > limit
    THEN LET page == SubSeq(posts, 1, Len(posts) - 1)
         IN  [err |-> FALSE, feed |-> page,
              cursor |-> Some(FormatInt(page[Len(page)].id))]
    ELSE [err |-> FALSE, feed |-> posts, cursor |-> None]

\* Feed.GetFeedPosts(cursor, limit) of the feed with builder b
FeedGetFeedPosts(b, cursor, limit, tbl) ==
    LET postId == safeParseCursor(cursor)
        got    == DBGetFeedPosts(b, limit + 1, postId, tbl)
    IN  IF got.err THEN [err |-> TRUE, feed |-> <<>>, cursor |-> None]
        ELSE createPaginatedResponse(got.posts, limit)

(***************************************************************************)
(* State                                                                   *)
(***************************************************************************)
VARIABLES
    \* SpecFeed
    table,      \* the posts table under the feed queries (a fixed snapshot)
    req,        \* the last request: [feed, cursor, limit]
    resp,       \* its result: [err, feed, cursor]
    pages,      \* the pages of the paging run in progress, oldest first
    paging      \* "idle", then "single" (a request of its own) or a paging run:
                \* "open" (a cursor was returned), "done", "failed"

feedVars == <<table, req, resp, pages, paging>>

VARIABLES
    \* SpecStore
    stored,     \* the rows of the posts table
    seq,        \* last value of the sequence behind posts.id
    clock,      \* time.Now(), in ticks
    call,       \* the last call of the writer: [op, post, at, err]
    hist        \* per uri, the CreatePost calls since the uri was last absent:
                \* [n, firstCreatedAt, last, lastAt]

storeVars == <<stored, seq, clock, call, hist>>

VARIABLES
    \* SpecStream
    nHosts,        \* len(config.Hosts)
    rootDone,      \* the root context (ctx.Context of serveCmd) is cancelled
    cancelled,     \* the derived contexts whose cancel function has run
    firehoseCtx,   \* serveCmd's variable firehoseCtx: the context it holds
    ctxCancel,     \* per context, the cancel function stored under cancelKey
    lastActivity,  \* the watchdog's atomic lastActivity, seconds since epoch
    now,           \* wall clock, in minutes since the epoch
    watchdog,      \* the watchdog goroutine: "running" or "exited"
    subs,          \* the Subscribe calls made so far, one record each
    process,       \* the serve process: "running", "crashed" (a panic no
                   \* goroutine recovered) or "exited" (serveCmd returned)
    postChan,      \* number of events in postChan, waiting for the writer
    acceptedSinceTick  \* a worker accepted a post since the last tick

streamVars ==
    <<nHosts, rootDone, cancelled, firehoseCtx, ctxCancel, lastActivity, now,
      watchdog, subs, process, postChan, acceptedSinceTick>>

VARIABLES
    \* SpecQuery
    qb,         \* a FeedQueryBuilder set up and run: [table, builder, ran, rows, err, posts]
    \* SpecConfig
    boot,       \* InitializeFeeds on a configuration: [called, cfg, err, feeds]
    \* SpecProcess
    proc,       \* eventProcessor's RepoCommit on one operation: the processor, the
                \* operation, its record, the detector's confidences, the outcome
    \* SpecLimit, SpecKeyword, SpecLetters, SpecRepeat, SpecSpam
    fn,         \* one call of a function: [pc, in, out]
    \* SpecPipe
    pipe        \* the reader goroutine, worker queue and workers of one
                \* subscription, with the frames told apart

auxVars == <<qb, boot, proc, fn, pipe>>

VARIABLES
    \* SpecDeadline
    conn,       \* one websocket connection with its timers: the clock, the
                \* read deadline, the ping ticker, the time the peer last sent
    \* SpecResume
    resume,     \* a run of the subscriber, its stop and the next Subscribe:
                \* events received, posts stored, the cursor computed
    \* SpecCast
    cast,       \* the SSE Broadcaster: its clients, their channels, the calls
                \* in progress
    \* SpecCmd
    cmd         \* subscribeCmd: the post channel, the signal handler, the
                \* workers and the writer

moreVars == <<conn, resume, cast, cmd>>

vars == <<feedVars, storeVars, streamVars, auxVars, moreVars>>

(***************************************************************************)
(* SpecFeed: requests against a fixed store snapshot                       *)
(***************************************************************************)
Limits == 1..MaxLimit

\* cursor strings a client may send on its own: unparseable, zero, signed, a
\* leading zero, an id
ClientCursors ==
    { <<"a", "b", "c">>, <<"0">>, <<"+", "1", "0">>, <<"-", "1">>, <<"0", "1", "2">>,
      <<"1", "1">> }

Ids(feed) == [ i \in 1..Len(feed) |-> feed[i].id ]

\* SpecFeed leaves the writer's state alone, SpecStore the feed requests
StoreIdle ==
    /\ stored = {}
    /\ seq = 0
    /\ clock = 0
    /\ call = [op |-> "none"]
    /\ hist = <<>>

FeedIdle ==
    /\ table = {}
    /\ req = [feed |-> "all", cursor |-> <<>>, limit |-> 1]
    /\ resp = [err |-> FALSE, feed |-> <<>>, cursor |-> None]
    /\ pages = <<>>
    /\ paging = "idle"

QueryIdle == qb = [table |-> {}, ran |-> FALSE]

ConfigIdle == boot = [called |-> FALSE]

ProcessIdle == proc = [pc |-> "idle"]

FnIdle == fn = [pc |-> "idle"]

PipeIdle == pipe = [reader |-> "none"]

ConnIdle == conn = [state |-> "none"]

ResumeIdle == resume = [phase |-> "none"]

CastIdle == cast = [state |-> "none"]

CmdIdle == cmd = [state |-> "none"]

MoreIdle == ConnIdle /\ ResumeIdle /\ CastIdle /\ CmdIdle

StreamIdle ==
    /\ nHosts = 1
    /\ rootDone = FALSE
    /\ cancelled = {}
    /\ firehoseCtx = 0
    /\ ctxCancel = <<>>
    /\ lastActivity = 0
    /\ now = 0
    /\ watchdog = "running"
    /\ subs = <<>>
    /\ process = "running"
    /\ postChan = 0
    /\ acceptedSinceTick = FALSE

InitFeed ==
    /\ StoreIdle
    /\ StreamIdle
    /\ QueryIdle /\ ConfigIdle /\ ProcessIdle /\ FnIdle /\ PipeIdle /\ MoreIdle
    /\ table \in Snapshots
    /\ req = [feed |-> "all", cursor |-> <<>>, limit |-> 1]
    /\ resp = [err |-> FALSE, feed |-> <<>>, cursor |-> None]
    /\ pages = <<>>
    /\ paging = "idle"

\* The handler keeps no state between requests: a response depends on the
\* table and the request alone.  A behaviour therefore holds one exchange,
\* a single request or one paging run, against one snapshot.

\* getFeedSkeleton without cursor: the first page of a paging run
FirstPage(f, limit) ==
    /\ paging = "idle"
    /\ LET r == FeedGetFeedPosts(Feeds[f], <<>>, limit, table)
       IN  /\ req' = [feed |-> f, cursor |-> <<>>, limit |-> limit]
           /\ resp' = r
           /\ pages' = IF r.err THEN <<>> ELSE <<Ids(r.feed)>>
           /\ paging' = IF r.err THEN "failed"
                        ELSE IF r.cursor = None THEN "done" ELSE "open"
    /\ UNCHANGED <<table, storeVars, streamVars, auxVars, moreVars>>

\* the client follows the cursor of the previous response
NextPage(limit) ==
    /\ paging = "open"
    /\ LET r == FeedGetFeedPosts(Feeds[req.feed], resp.cursor[1], limit, table)
       IN  /\ req' = [feed |-> req.feed, cursor |-> resp.cursor[1], limit |-> limit]
           /\ resp' = r
           /\ pages' = IF r.err THEN pages ELSE Append(pages, Ids(r.feed))
           /\ paging' = IF r.err THEN "failed"
                        ELSE IF r.cursor = None THEN "done" ELSE "open"
    /\ UNCHANGED <<table, storeVars, streamVars, auxVars, moreVars>>

\* a request with a cursor of the client's own making; it belongs to no run
Request(f, c, limit) ==
    /\ paging = "idle"
    /\ req' = [feed |-> f, cursor |-> c, limit |-> limit]
    /\ resp' = FeedGetFeedPosts(Feeds[f], c, limit, table)
    /\ pages' = <<>>
    /\ paging' = "single"
    /\ UNCHANGED <<table, storeVars, streamVars, auxVars, moreVars>>

NextFeed ==
    \/ \E f \in FeedIds, l \in Limits : FirstPage(f, l)
    \/ \E l \in Limits : NextPage(l)
    \/ \E f \in FeedIds, c \in ClientCursors, l \in Limits : Request(f, c, l)

SpecFeed == InitFeed /\ [][NextFeed]_vars

(***************************************************************************)
(* Properties of SpecFeed                                                  *)
(***************************************************************************)
RECURSIVE Flatten(_)
Flatten(ss) == IF ss = <<>> THEN <<>> ELSE Head(ss) \o Flatten(Tail(ss))

\* the rows the feed's filters select, and those below a cursor
Matching(f) ==
    { r \in table : \A i \in 1..Len(Feeds[f].filters) :
                        ApplyFilter(Feeds[f].filters[i], r) }

MatchingBelow(f, c) == { r \in Matching(f) : c # 0 => r.id < c }

\* r stands before o in the ranking of feed f: score DESC, id DESC
RankedBefore(f, r, o) ==
    LET sr == ScoreSum(Feeds[f].scoringLayers, r)
        so == ScoreSum(Feeds[f].scoringLayers, o)
    IN  sr > so \/ (sr = so /\ r.id > o.id)

\* s lists exactly the ids of the rows of S, each once, in ranking order
IsRankingOf(s, f, S) ==
    /\ Len(s) = Cardinality(S)
    /\ \A r \in S : \E i \in 1..Len(s) : s[i] = r.id
    /\ \A i, j \in 1..Len(s) :
         i < j => \E r, o \in S : r.id = s[i] /\ o.id = s[j] /\ RankedBefore(f, r, o)

\* C1: in a paging run (each request carries the cursor the previous response
\* returned) no post id is returned on two different pages.
C1_NoDuplicateAcrossPages ==
    \A i, j \in 1..Len(pages) :
        i # j => \A a \in 1..Len(pages[i]), b \in 1..Len(pages[j]) :
                     pages[i][a] # pages[j][b]

\* C2: when a paging run has ended (a response without cursor), the pages put
\* together are the full ranked result of the feed: every matching post, in
\* score DESC then id DESC order, none skipped.
C2_PagesAreFullRanking ==
    paging = "done" => IsRankingOf(Flatten(pages), req.feed, Matching(req.feed))

\* C7: the response to a request with limit L carries a cursor if and only
\* if the feed query, with the request's cursor applied, has at least L+1
\* matching rows.
C7_CursorIffNextPage ==
    paging # "idle" =>
        ( resp.cursor # None
          <=> Cardinality(MatchingBelow(req.feed, safeParseCursor(req.cursor)))
                >= req.limit + 1 )

\* C8: a response never holds more posts than the limit of its request.
C8_LimitHonored == Len(resp.feed) <= req.limit

\* the probe row was fetched and cut off: a full page with a cursor
C8_Witness ==
    /\ paging # "idle" /\ ~resp.err
    /\ Len(resp.feed) = req.limit /\ req.limit = MaxLimit
    /\ Cardinality(MatchingBelow(req.feed, safeParseCursor(req.cursor))) > req.limit

\* the decimal numeral of n: digits only, no sign, no leading zero
IsDecimalOf(s, n) ==
    /\ Len(s) >= 1
    /\ \A i \in 1..Len(s) : IsDigit(s[i])
    /\ (Len(s) > 1 => s[1] # "0")
    /\ ParseDigits(s, 0) = n

\* C9: a cursor in a response is the base-10 id of the last post of the page
\* returned in that response.
C9_CursorIsLastPostOfPage ==
    resp.cursor # None =>
        /\ Len(resp.feed) >= 1
        /\ IsDecimalOf(resp.cursor[1], resp.feed[Len(resp.feed)].id)

\* a response with a cursor of more than one digit, behind a page of two
C9_Witness ==
    /\ resp.cursor # None
    /\ Len(resp.cursor[1]) > 1
    /\ Len(resp.feed) > 1

\* C10: a request to a feed without scoring layers whose filters select at
\* least one post succeeds and returns the matching posts (below the cursor)
\* by id descending, cut to the limit.
C10_UnscoredFeedServes ==
    ( /\ paging # "idle"
      /\ Feeds[req.feed].scoringLayers = <<>>
      /\ Matching(req.feed) # {} )
    => /\ ~resp.err
       /\ LET S == MatchingBelow(req.feed, safeParseCursor(req.cursor))
          IN  /\ Len(resp.feed) = (IF Cardinality(S) < req.limit
                                   THEN Cardinality(S) ELSE req.limit)
              /\ \A i \in 1..Len(resp.feed) :
                    /\ \E r \in S : r.id = resp.feed[i].id
                    /\ Cardinality({ r \in S : r.id > resp.feed[i].id }) = i - 1

(***************************************************************************)
(* SpecStore: DB.CreatePost and DB.DeletePost on the posts table           *)
(***************************************************************************)
URIs == {"at://did:plc:a/app.bsky.feed.post/1", "at://did:plc:b/app.bsky.feed.post/2"}

\* the repository (DID) a post uri belongs to
AuthorOf(uri) ==
    IF uri = "at://did:plc:a/app.bsky.feed.post/1" THEN "did:plc:a" ELSE "did:plc:b"

\* models.Post values the writer is handed; ParentUri is a Go string, ""
\* for a post that is no reply
PostValues ==
    { [Uri |-> u, CreatedAt |-> c, Text |-> t, ParentUri |-> p, Languages |-> l,
       Author |-> AuthorOf(u)] :
        u \in URIs, c \in {100, 200}, t \in {"A", "B"},
        p \in {"", "at://did:plc:c/app.bsky.feed.post/9"},
        l \in {<<"nb">>, <<"nb", "en">>} }

\* A Go string handed to ExecContext as a query argument is sent as a text
\* value, the empty string included; only nil is sent as NULL.
StringArg(str) == Some(str)

\* CHECK (parent_uri IS NULL OR parent_uri <> '')
parent_uri_not_empty(r) == r.parent_uri = None \/ r.parent_uri # Some("")

\* the row with the uri, when there is one
RowsOf(tbl, uri) == { r \in tbl : r.uri = uri }

\* INSERT ... ON CONFLICT (uri) DO UPDATE of CreatePost on the rows tbl: the
\* proposed row takes the next value of the id sequence; a row that breaks
\* a constraint fails the statement; on a conflict the existing row keeps id
\* and created_at and takes the other columns.
Upsert(tbl, post, at, nextval) ==
    LET proposed == [id |-> nextval, uri |-> post.Uri, created_at |-> post.CreatedAt,
                     indexed_at |-> at, text |-> post.Text,
                     parent_uri |-> StringArg(post.ParentUri),
                     languages |-> post.Languages, author_did |-> post.Author]
        old == RowsOf(tbl, post.Uri)
    IN  IF ~parent_uri_not_empty(proposed)
        THEN [err |-> TRUE, rows |-> tbl]
        ELSE IF old = {}
        THEN [err |-> FALSE, rows |-> tbl \cup {proposed}]
        ELSE [err |-> FALSE,
              rows |-> (tbl \ old) \cup
                  { [r EXCEPT !.indexed_at = at, !.text = post.Text,
                              !.parent_uri = StringArg(post.ParentUri),
                              !.languages = post.Languages,
                              !.author_did = post.Author] : r \in old }]

NoHistory == [n |-> 0]

InitStore ==
    /\ FeedIdle
    /\ StreamIdle
    /\ QueryIdle /\ ConfigIdle /\ ProcessIdle /\ FnIdle /\ PipeIdle /\ MoreIdle
    /\ stored = {}
    /\ seq = 0
    /\ clock = 1
    /\ call = [op |-> "none"]
    /\ hist = [u \in URIs |-> NoHistory]

\* DB.CreatePost(ctx, post)
CreatePost(post) ==
    /\ seq < MaxSeq
    /\ LET res == Upsert(stored, post, clock, seq + 1)
       IN  /\ stored' = res.rows
           /\ call' = [op |-> "CreatePost", post |-> post, at |-> clock, err |-> res.err]
    /\ seq' = seq + 1
    /\ clock' = clock + 1
    /\ hist' = [hist EXCEPT ![post.Uri] =
                  [n |-> @.n + 1,
                   firstCreatedAt |-> IF @.n = 0 THEN post.CreatedAt ELSE @.firstCreatedAt,
                   last |-> post, lastAt |-> clock]]
    /\ UNCHANGED <<feedVars, streamVars, auxVars, moreVars>>

\* DB.DeletePost(ctx, post): DELETE FROM posts WHERE uri = $1
DeletePost(uri) ==
    /\ stored' = stored \ RowsOf(stored, uri)
    /\ call' = [op |-> "DeletePost", post |-> [Uri |-> uri], at |-> clock, err |-> FALSE]
    /\ hist' = [hist EXCEPT ![uri] = NoHistory]
    /\ UNCHANGED <<seq, clock, feedVars, streamVars, auxVars, moreVars>>

NextStore ==
    \/ \E post \in PostValues : CreatePost(post)
    \/ \E uri \in URIs : DeletePost(uri)

SpecStore == InitStore /\ [][NextStore]_vars

(***************************************************************************)
(* Properties of SpecStore                                                 *)
(***************************************************************************)
\* the parent_uri column for a ParentUri as the claims have it: NULL for ""
NullIfEmpty(str) == IF str = "" THEN None ELSE Some(str)

\* C5: after any sequence of CreatePost calls on a uri there is exactly one
\* row for it; it has the created_at of the first call and the text,
\* parent_uri, languages and indexed_at of the last call.
C5_UpsertKeepsCreatedAt ==
    \A u \in URIs :
        hist[u].n >= 1 =>
            /\ Cardinality(RowsOf(stored, u)) = 1
            /\ \A r \in RowsOf(stored, u) :
                  /\ r.created_at = hist[u].firstCreatedAt
                  /\ r.text = hist[u].last.Text
                  /\ r.parent_uri = NullIfEmpty(hist[u].last.ParentUri)
                  /\ r.languages = hist[u].last.Languages
                  /\ r.indexed_at = hist[u].lastAt

\* C6: CreatePost of a post with an empty ParentUri succeeds and leaves the
\* row with parent_uri NULL; and no row ever has an empty, non-NULL parent_uri.
C6_EmptyParentUriStoredAsNull ==
    /\ ( (call.op = "CreatePost" /\ call.post.ParentUri = "")
         => /\ ~call.err
            /\ \E r \in RowsOf(stored, call.post.Uri) : r.parent_uri = None )
    /\ \A r \in stored : r.parent_uri = None \/ r.parent_uri # Some("")

(***************************************************************************)
(* SpecStream: serveCmd's subscription goroutines and liveness watchdog    *)
(* (cmd/serve.go), firehose.Subscribe, the Jetstream client                *)
(* (firehose/jetstream_client.go) and the parallel processor.              *)
(***************************************************************************)
\* period of livenessTicker and inactivity threshold, in minutes
WatchdogMinutes == 15

\* ctx.Done() is closed: the root context or the derived one was cancelled
Done(c) == rootDone \/ c \in cancelled

\* a Subscribe call entering SubscribeJetstream with context c: first host,
\* fresh backoff, no connection, a parallel processor with an empty queue
NewSub(c) ==
    [ctx |-> c, st |-> "top", hostIdx |-> 0, backoffN |-> 0, conn |-> "none",
     connHost |-> None, reader |-> "none", ping |-> "none", queue |-> 0, workers |-> 0,
     panicked |-> FALSE]

Subs == 1..Len(subs)

InitStream ==
    /\ FeedIdle
    /\ StoreIdle
    /\ QueryIdle /\ ConfigIdle /\ ProcessIdle /\ FnIdle /\ PipeIdle /\ MoreIdle
    /\ nHosts \in 1..MaxHosts
    /\ rootDone = FALSE
    /\ cancelled = {}
    /\ firehoseCtx = 0
    /\ ctxCancel = (0 :> None)
    /\ lastActivity = 0
    /\ now = 100 * WatchdogMinutes
    /\ watchdog = "running"
    /\ subs = <<NewSub(0)>>
    /\ process = "running"
    /\ postChan = 0
    /\ acceptedSinceTick = FALSE

StreamFrame == UNCHANGED <<feedVars, storeVars, auxVars, moreVars, nHosts>>

WatchdogFrame ==
    UNCHANGED <<cancelled, firehoseCtx, ctxCancel, lastActivity, now, watchdog>>

\* the writer's channel, the process and the activity since the last tick
ProcessFrame == UNCHANGED <<process, postChan, acceptedSinceTick>>

\* the process is alive: its goroutines take steps
Running == process = "running"

\* SubscribeJetstream, top of the connection loop, context cancelled: return
\* ctx.Err().  Subscribe drops the error and starts the workers.
DialAbort(s) ==
    /\ Running
    /\ subs[s].st = "top" /\ Done(subs[s].ctx)
    /\ subs' = [subs EXCEPT ![s].st = "aborted", ![s].workers = NumWorkers]
    /\ UNCHANGED rootDone /\ WatchdogFrame /\ ProcessFrame /\ StreamFrame

\* top of the connection loop, context live: dial the current host
DialStart(s) ==
    /\ Running
    /\ subs[s].st = "top" /\ ~Done(subs[s].ctx)
    /\ subs' = [subs EXCEPT ![s].st = "dialing"]
    /\ UNCHANGED rootDone /\ WatchdogFrame /\ ProcessFrame /\ StreamFrame

\* a failed dial after which the client dials the same host again at once
DialFailKeepsHost(s) ==
    /\ Running
    /\ subs[s].st = "dialing"
    /\ subs' = [subs EXCEPT ![s].st = "top"]
    /\ UNCHANGED rootDone /\ WatchdogFrame /\ ProcessFrame /\ StreamFrame

\* dialer.Dial failed: with another host in the list switch to it, reset the
\* backoff and go on at once; with a single host sleep for the next backoff
DialFail(s) ==
    /\ Running
    /\ subs[s].st = "dialing"
    /\ LET nextHostIdx == (subs[s].hostIdx + 1) % nHosts
       IN  IF nextHostIdx # subs[s].hostIdx
           THEN subs' = [subs EXCEPT ![s].hostIdx = nextHostIdx, ![s].backoffN = 0,
                                     ![s].st = "top"]
           ELSE subs' = [subs EXCEPT ![s].st = "sleep",
                                     ![s].backoffN = IF @ < MaxBackoff THEN @ + 1 ELSE @]
    /\ UNCHANGED rootDone /\ WatchdogFrame /\ ProcessFrame /\ StreamFrame

\* time.Sleep(backoff.NextBackOff()) is over
Wake(s) ==
    /\ Running
    /\ subs[s].st = "sleep"
    /\ subs' = [subs EXCEPT ![s].st = "top"]
    /\ UNCHANGED rootDone /\ WatchdogFrame /\ ProcessFrame /\ StreamFrame

\* dialer.Dial succeeded: reset the backoff, start the ping goroutine, return
\* the connection; SubscribeJetstreamWithMessages starts the reader goroutine
\* and Subscribe the workers
DialOK(s) ==
    /\ Running
    /\ subs[s].st = "dialing"
    /\ subs' = [subs EXCEPT ![s].st = "connected", ![s].backoffN = 0,
                            ![s].conn = "open", ![s].connHost = Some(subs[s].hostIdx),
                            ![s].ping = "wait",
                            ![s].reader = "select", ![s].workers = NumWorkers]
    /\ UNCHANGED rootDone /\ WatchdogFrame /\ ProcessFrame /\ StreamFrame

\* reader goroutine, select: with the context cancelled return (the deferred
\* conn.Close runs), else call conn.ReadMessage
ReaderSelect(s) ==
    /\ Running
    /\ subs[s].reader = "select"
    /\ IF Done(subs[s].ctx)
       THEN subs' = [subs EXCEPT ![s].reader = "exited", ![s].conn = "closed"]
       ELSE subs' = [subs EXCEPT ![s].reader = "read"]
    /\ UNCHANGED rootDone /\ WatchdogFrame /\ ProcessFrame /\ StreamFrame

\* conn.ReadMessage returns a frame; workerQueue <- rawMsg blocks while the
\* queue is full
ReadMessage(s) ==
    /\ Running
    /\ subs[s].reader = "read" /\ subs[s].conn = "open"
    /\ IF subs[s].queue < QueueCap
       THEN subs' = [subs EXCEPT ![s].queue = @ + 1, ![s].reader = "select"]
       ELSE subs' = [subs EXCEPT ![s].reader = "send"]
    /\ UNCHANGED rootDone /\ WatchdogFrame /\ ProcessFrame /\ StreamFrame

\* the blocked send goes through once the queue has room
Enqueue(s) ==
    /\ Running
    /\ subs[s].reader = "send" /\ subs[s].queue < QueueCap
    /\ subs' = [subs EXCEPT ![s].queue = @ + 1, ![s].reader = "select"]
    /\ UNCHANGED rootDone /\ WatchdogFrame /\ ProcessFrame /\ StreamFrame

\* conn.ReadMessage returns an error (EOF, close frame, read deadline, use of
\* a connection the ping goroutine closed): the reader goroutine returns and
\* the deferred conn.Close runs
ReadError(s) ==
    /\ Running
    /\ subs[s].reader = "read"
    /\ subs' = [subs EXCEPT ![s].reader = "exited", ![s].conn = "closed"]
    /\ UNCHANGED rootDone /\ WatchdogFrame /\ ProcessFrame /\ StreamFrame

\* managePingPong: the ping write fails; close the connection and return
PingFail(s) ==
    /\ Running
    /\ subs[s].ping = "wait"
    /\ subs' = [subs EXCEPT ![s].ping = "exited", ![s].conn = "closed"]
    /\ UNCHANGED rootDone /\ WatchdogFrame /\ ProcessFrame /\ StreamFrame

\* managePingPong: the context is cancelled; return
PingStop(s) ==
    /\ Running
    /\ subs[s].ping = "wait" /\ Done(subs[s].ctx)
    /\ subs' = [subs EXCEPT ![s].ping = "exited"]
    /\ UNCHANGED rootDone /\ WatchdogFrame /\ ProcessFrame /\ StreamFrame

\* startWorker: a worker takes a message off the queue and processPost
\* returns; a post it accepted was sent on postChan, which blocks the worker
\* while the channel is full
Work(s) ==
    /\ Running
    /\ subs[s].workers > 0 /\ subs[s].queue > 0
    /\ \E accepted \in BOOLEAN :
          /\ accepted => postChan < PostChanCap
          /\ postChan' = IF accepted THEN postChan + 1 ELSE postChan
          /\ acceptedSinceTick' = (acceptedSinceTick \/ accepted)
    /\ subs' = [subs EXCEPT ![s].queue = @ - 1]
    /\ UNCHANGED <<rootDone, process>> /\ WatchdogFrame /\ StreamFrame

\* startWorker: processPost panics.  startWorker defers only wg.Done, no
\* recover, so the panic leaves the goroutine and the runtime ends the
\* process.
WorkPanic(s) ==
    /\ Running
    /\ subs[s].workers > 0 /\ subs[s].queue > 0
    /\ subs' = [subs EXCEPT ![s].queue = @ - 1, ![s].workers = @ - 1,
                            ![s].panicked = TRUE]
    /\ process' = "crashed"
    /\ UNCHANGED <<rootDone, postChan, acceptedSinceTick>> /\ WatchdogFrame /\ StreamFrame

\* the post processing goroutine of serveCmd: for post := range postChan,
\* write it to the store
WritePost ==
    /\ Running
    /\ postChan > 0
    /\ postChan' = postChan - 1
    /\ UNCHANGED <<rootDone, subs, process, acceptedSinceTick>>
    /\ WatchdogFrame /\ StreamFrame

\* startWorker: pp.ctx, derived from the subscription's context, is done
WorkersStop(s) ==
    /\ Running
    /\ subs[s].workers > 0 /\ Done(subs[s].ctx)
    /\ subs' = [subs EXCEPT ![s].workers = 0]
    /\ UNCHANGED rootDone /\ WatchdogFrame /\ ProcessFrame /\ StreamFrame

\* the condition of the watchdog at time t (minutes):
\* time.Since(time.Unix(lastActivity.Load(), 0)) > 15*time.Minute
Inactive(t) == t * 60 - lastActivity > WatchdogMinutes * 60

\* The liveness goroutine receives from livenessTicker.C.  With the root
\* context cancelled it returns.  Else, when inactive: it calls the cancel
\* function found under cancelKey in firehoseCtx, makes a new context with
\* its cancel function stored under cancelKey, and starts Subscribe with it.
\* The new context is bound by := to a variable of the inner block, so
\* serveCmd's firehoseCtx keeps the context it had.
Tick ==
    /\ Running
    /\ watchdog = "running"
    /\ acceptedSinceTick' = FALSE
    /\ now' = now + WatchdogMinutes
    /\ IF rootDone
       THEN /\ watchdog' = "exited"
            /\ UNCHANGED <<cancelled, ctxCancel, subs>>
       ELSE /\ Inactive(now')
            /\ Len(subs) < MaxSubs
            /\ LET cancel == ctxCancel[firehoseCtx]
                   new    == Len(subs)
               IN  /\ cancelled' = IF cancel # None THEN cancelled \cup {cancel[1]}
                                   ELSE cancelled
                   /\ ctxCancel' = ctxCancel @@ (new :> Some(new))
                   /\ subs' = Append(subs, NewSub(new))
            /\ UNCHANGED watchdog
    /\ UNCHANGED <<rootDone, firehoseCtx, lastActivity, process, postChan>>
    /\ StreamFrame

\* SIGINT / SIGTERM: the root context is cancelled
CancelRoot ==
    /\ Running
    /\ ~rootDone
    /\ rootDone' = TRUE
    /\ UNCHANGED subs /\ WatchdogFrame /\ ProcessFrame /\ StreamFrame

\* serveCmd's Action after <-ctx.Context.Done(): it shuts the HTTP server
\* down and returns nil; the process ends with the goroutines as they are
ServeReturn ==
    /\ Running
    /\ rootDone
    /\ process' = "exited"
    /\ UNCHANGED <<rootDone, subs, postChan, acceptedSinceTick>>
    /\ WatchdogFrame /\ StreamFrame

\* steps of the program's goroutines, which the Go scheduler keeps running
NextSub(s) ==
    \/ DialAbort(s)
    \/ DialStart(s)
    \/ Wake(s)
    \/ ReaderSelect(s)
    \/ Enqueue(s)
    \/ PingStop(s)
    \/ Work(s)
    \/ WorkersStop(s)

NextStream ==
    \/ \E s \in Subs : DialAbort(s)
    \/ \E s \in Subs : DialStart(s)
    \/ \E s \in Subs : DialFail(s)
    \/ \E s \in Subs : Wake(s)
    \/ \E s \in Subs : DialOK(s)
    \/ \E s \in Subs : ReaderSelect(s)
    \/ \E s \in Subs : ReadMessage(s)
    \/ \E s \in Subs : Enqueue(s)
    \/ \E s \in Subs : ReadError(s)
    \/ \E s \in Subs : PingFail(s)
    \/ \E s \in Subs : PingStop(s)
    \/ \E s \in Subs : Work(s)
    \/ \E s \in Subs : WorkPanic(s)
    \/ \E s \in Subs : WorkersStop(s)
    \/ WritePost
    \/ Tick
    \/ CancelRoot
    \/ ServeReturn

SpecStream == InitStream /\ [][NextStream]_vars

\* the goroutines and the ticker make progress
FairSpecStream ==
    /\ SpecStream
    /\ \A s \in 1..MaxSubs : WF_vars(s \in Subs /\ NextSub(s))
    /\ WF_vars(WritePost)
    /\ WF_vars(Tick)

\* SpecDial: the connection loops of SubscribeJetstream alone, the
\* connections staying open once made
NextDial ==
    \/ \E s \in Subs : DialAbort(s)
    \/ \E s \in Subs : DialStart(s)
    \/ \E s \in Subs : DialFail(s)
    \/ \E s \in Subs : Wake(s)
    \/ \E s \in Subs : DialOK(s)
    \/ Tick
    \/ CancelRoot

SpecDial == InitStream /\ [][NextDial]_vars

(***************************************************************************)
(* Properties of SpecStream                                                *)
(***************************************************************************)
\* the subscriptions whose websocket is open
LiveConns == { s \in Subs : subs[s].conn = "open" }

\* C3: at every moment at most one upstream websocket connection is live:
\* a subscription the watchdog has replaced does not keep its connection
\* open next to the one of the new subscription.
C3_OneLiveConnection == Cardinality(LiveConns) <= 1

\* the worker goroutines running, over all subscriptions made so far
RECURSIVE LiveWorkers(_)
LiveWorkers(n) == IF n = 0 THEN 0 ELSE subs[n].workers + LiveWorkers(n - 1)

\* C33: the number of live worker goroutines never exceeds the configured
\* number of workers of one parallel processor, however many subscriptions
\* the watchdog has started.
C33_WorkersBounded == LiveWorkers(Len(subs)) <= NumWorkers

\* the connection of subscription s failed and was closed while the context
\* it runs under is live
ConnLost(s) ==
    /\ s \in Subs
    /\ subs[s].conn = "closed"
    /\ ~Done(subs[s].ctx)

\* the streaming client of subscription s is in its connection loop
Redialing(s) == s \in Subs /\ subs[s].st \in {"top", "dialing", "sleep"}

\* C4: while the root context is live, a streaming client whose established
\* connection failed closes it and eventually dials again by itself.
C4_ReconnectsAfterFailure ==
    \A s \in 1..MaxSubs :
        (ConnLost(s) /\ ~rootDone) ~> (Redialing(s) \/ rootDone \/ ~Running)

\* C13: a panic raised while a worker processes a message is caught: the
\* number of running workers of the pool is unchanged and the process keeps
\* running.
C13_WorkerPanicIsCaught ==
    [][ \A s \in 1..MaxSubs :
          (s \in Subs /\ ~subs[s].panicked /\ subs'[s].panicked)
              => (subs'[s].workers = subs[s].workers /\ process' = "running") ]_vars

\* C14: at a watchdog tick with the root context live a subscription is
\* started if and only if no post was accepted since the previous tick.
C14_RestartOnlyWhenIdle ==
    [][ (now' # now /\ ~rootDone)
            => ((Len(subs') > Len(subs)) <=> ~acceptedSinceTick) ]_vars

\* every goroutine of subscription s has returned and its websocket is closed
Stopped(s) ==
    /\ subs[s].st \in {"aborted", "connected"}
    /\ subs[s].reader \in {"none", "exited"}
    /\ subs[s].ping \in {"none", "exited"}
    /\ subs[s].workers = 0
    /\ subs[s].conn # "open"

\* a step of a goroutine of subscription s, a return of a pending dial, read
\* or ping included
SubStep(s) ==
    \/ DialAbort(s) \/ DialStart(s) \/ DialFail(s) \/ Wake(s) \/ DialOK(s)
    \/ ReaderSelect(s) \/ ReadMessage(s) \/ Enqueue(s) \/ ReadError(s)
    \/ PingFail(s) \/ PingStop(s) \/ Work(s) \/ WorkPanic(s) \/ WorkersStop(s)

\* C15: after its context is cancelled a subscription comes to a stop from
\* every state: as long as one of its goroutines has not returned or its
\* websocket is open, one of its goroutines can take a step.
C15_CancelledSubscriptionStops ==
    \A s \in 1..MaxSubs :
        (s \in Subs /\ Done(subs[s].ctx) /\ Running)
            => (Stopped(s) \/ ENABLED SubStep(s))

\* C16: when serveCmd has returned, every subscription has stopped, the
\* events accepted and queued on postChan have been written, and the
\* watchdog has returned.
C16_ReturnsAfterDrain ==
    process = "exited" =>
        /\ \A s \in Subs : Stopped(s)
        /\ postChan = 0
        /\ watchdog = "exited"

\* the dial of subscription s ends in this step with a failure
DialFailed(s) ==
    /\ s \in Subs /\ subs[s].st = "dialing"
    /\ subs'[s].st \in {"top", "sleep"}

\* C28: when the dial of the last host of the list fails, every host having
\* failed in a row by then, the client sleeps before it dials again.
C28_WaitsAfterAllHostsFailed ==
    [][\A s \in 1..MaxSubs :
          (DialFailed(s) /\ subs[s].hostIdx = nHosts - 1) => subs'[s].st = "sleep"]_vars

\* C29: a failed dial of host i makes host (i + 1) mod N the current host,
\* with the backoff reset when that is another host; no other step changes
\* the current host; a successful dial resets the backoff and the
\* connection is to the host it dialed.
C29_FailoverOrder ==
    [][\A s \in 1..MaxSubs : s \in Subs =>
          /\ DialFailed(s) =>
               /\ subs'[s].hostIdx = (subs[s].hostIdx + 1) % nHosts
               /\ (subs'[s].hostIdx # subs[s].hostIdx => subs'[s].backoffN = 0)
          /\ ~DialFailed(s) => subs'[s].hostIdx = subs[s].hostIdx
          /\ (subs[s].st = "dialing" /\ subs'[s].st = "connected") =>
               /\ subs'[s].backoffN = 0
               /\ subs'[s].connHost = Some(subs[s].hostIdx)
               /\ subs'[s].conn = "open"]_vars

\* a subscription is connected to the second host of the list, after the
\* dial of the first host failed
C29_Witness ==
    \E s \in Subs : subs[s].conn = "open" /\ subs[s].connHost = Some(1)

(***************************************************************************)
(* SpecQuery: a FeedQueryBuilder is given filters and scoring layers        *)
(* (AddFilter, AddScoringLayer) and DB.GetFeedPosts runs its statement.     *)
(***************************************************************************)
\* keyword lists of the configuration: a keyword is a string of words
QueryKeywords ==
    ("ski" :> << <<"ski">>, <<"fjell", "tur">> >>) @@ ("spam" :> << <<"bot">> >>)

\* filter entries of a feed configuration
QueryFilterConfigs ==
    { TomlFilter("language", <<"nb">>, <<>>, <<>>),
      TomlFilter("language", <<>>, <<>>, <<>>),
      TomlFilter("exclude_replies", <<>>, <<>>, <<>>),
      TomlFilter("keyword", <<>>, <<"ski">>, <<>>),
      TomlFilter("keyword", <<>>, <<"ski">>, <<"spam">>),
      TomlFilter("keyword", <<>>, <<>>, <<"spam", "missing">>) }

\* ts_vector values: to_tsvector('simple', text), the set of words of the text
TsVectors == << {"ski"}, {"ski", "bot"}, {"fjell"} >>

QueryLanguages == << <<"nb">>, <<"en">> >>

QueryParentUris == << None, Some("at://parent") >>

\* one row per combination of languages, parent_uri and text, numbered in
\* the order of insertion
QueryRows ==
    { [id |-> ((l - 1) * Len(QueryParentUris) + (p - 1)) * Len(TsVectors) + v,
       uri |-> <<"at://post", l, p, v>>, created_at |-> NowDay,
       languages |-> QueryLanguages[l], parent_uri |-> QueryParentUris[p],
       ts_vector |-> TsVectors[v]] :
        l \in 1..Len(QueryLanguages), p \in 1..Len(QueryParentUris),
        v \in 1..Len(TsVectors) }

QueryTables == { t \in SUBSET QueryRows : Cardinality(t) <= MaxQueryRows }

InitQuery ==
    /\ FeedIdle /\ StoreIdle /\ StreamIdle /\ ConfigIdle /\ ProcessIdle /\ FnIdle /\ PipeIdle /\ MoreIdle
    /\ qb \in { [table |-> t, builder |-> NewFeedQueryBuilder, ran |-> FALSE] :
                  t \in QueryTables }

QueryFrame == UNCHANGED <<feedVars, storeVars, streamVars, boot, proc, fn, pipe, moreVars>>

\* InitializeFeeds adds the filter made from a configuration entry
QueryAddFilter(config) ==
    /\ ~qb.ran
    /\ qb.builder.scoringLayers = <<>>
    /\ Len(qb.builder.filters) < MaxFilters
    /\ qb' = [qb EXCEPT !.builder =
                 AddFilter(@, createFilterStrategy(config, QueryKeywords).filter)]
    /\ QueryFrame

\* InitializeFeeds adds a scoring layer after the filters
QueryAddScoringLayer ==
    /\ ~qb.ran
    /\ qb.builder.scoringLayers = <<>>
    /\ qb' = [qb EXCEPT !.builder =
                 AddScoringLayer(@, createScoringStrategy(Decay(Thousandth), QueryKeywords).strategy, Thousandth)]
    /\ QueryFrame

\* DB.GetFeedPosts(builder, limit, 0) with a limit beyond the table's size
QueryRun ==
    /\ ~qb.ran
    /\ LET limit == Cardinality(qb.table) + 1
           got   == DBGetFeedPosts(qb.builder, limit, 0, qb.table)
       IN  qb' = [table |-> qb.table, builder |-> qb.builder, ran |-> TRUE,
                  rows |-> ExecQuery(Build(qb.builder, limit, 0), qb.table),
                  err |-> got.err, posts |-> got.posts]
    /\ QueryFrame

NextQuery ==
    \/ \E config \in QueryFilterConfigs : QueryAddFilter(config)
    \/ QueryAddScoringLayer
    \/ QueryRun

SpecQuery == InitQuery /\ [][NextQuery]_vars

(***************************************************************************)
(* Properties of SpecQuery                                                 *)
(***************************************************************************)
\* ids of the rows the statement of a builder with the filters fs selects
Selected(fs) ==
    LET b == [filters |-> fs, scoringLayers |-> qb.builder.scoringLayers]
        rows == ExecQuery(Build(b, Cardinality(qb.table) + 1, 0), qb.table)
    IN  { rows[i].id : i \in 1..Len(rows) }

\* C11: the rows the statement of a builder with several filters selects are
\* exactly the rows that each of its filters, alone in a builder, selects.
C11_FiltersIntersect ==
    (qb.ran /\ Len(qb.builder.filters) >= 2) =>
        { qb.rows[i].id : i \in 1..Len(qb.rows) }
          = { r.id : r \in { x \in qb.table :
                  \A i \in 1..Len(qb.builder.filters) :
                      x.id \in Selected(<<qb.builder.filters[i]>>) } }

\* two filters, a keyword filter with exclusions first: one row passes
\* both, another passes the keyword filter and is rejected by the second
C11_Witness ==
    /\ qb.ran /\ Len(qb.builder.filters) = 2
    /\ qb.builder.filters[1].type = "keyword"
    /\ qb.builder.filters[1].ExcludeKeywords # <<>>
    /\ qb.builder.filters[2].type # "keyword"
    /\ Len(qb.rows) >= 1
    /\ Selected(<<qb.builder.filters[1]>>) \ Selected(<<qb.builder.filters[2]>>) # {}

\* C24: GetFeedPosts returns an error only when the statement fails to
\* execute (which it never does here): a row that fails to deserialize is
\* left out and the call succeeds.
C24_ScanErrorSkipsRow == qb.ran => ~qb.err

(***************************************************************************)
(* SpecConfig: InitializeFeeds on the configurations a TOML file can hold   *)
(***************************************************************************)
\* [keywords] of the configuration: one list is defined
ConfigKeywords == ("ski" :> << <<"ski">>, <<"fjell", "tur">> >>)

\* filter and scoring entries: of every type, with references to the list
\* that is defined and to one that is not, and of a type that does not exist
ConfigFilters ==
    { TomlFilter("language", <<"nb">>, <<>>, <<>>),
      TomlFilter("exclude_replies", <<>>, <<>>, <<>>),
      TomlFilter("keyword", <<>>, <<"ski">>, <<>>),
      TomlFilter("keyword", <<>>, <<"missing">>, <<>>),
      TomlFilter("keyword", <<>>, <<"ski">>, <<"missing">>),
      TomlFilter("regex", <<>>, <<>>, <<>>) }

ConfigScorings ==
    { TomlScoring("time_decay", Thousandth, "", <<>>),
      TomlScoring("keyword", Thousandth, "ski", <<>>),
      TomlScoring("keyword", Thousandth, "missing", <<>>),
      TomlScoring("author", Thousandth, "", << [DID |-> "did:plc:a", Weight |-> 2 * One] >>),
      TomlScoring("popularity", Thousandth, "", <<>>) }

\* sequences of at most one element of S
AtMostOne(S) == {<<>>} \cup { <<x>> : x \in S }

ConfigFeeds(id) ==
    { [Id |-> id, Filters |-> fs, Scoring |-> sc] :
        fs \in AtMostOne(ConfigFilters), sc \in AtMostOne(ConfigScorings) }

Configs ==
    { [Keywords |-> ConfigKeywords, Feeds |-> fs] :
        fs \in UNION { { f \in [1..n -> UNION { ConfigFeeds(i) : i \in 1..n }] :
                           \A i \in 1..n : f[i].Id = i } : n \in 1..MaxFeeds } }

InitConfig ==
    /\ FeedIdle /\ StoreIdle /\ StreamIdle /\ QueryIdle /\ ProcessIdle /\ FnIdle /\ PipeIdle /\ MoreIdle
    /\ boot \in { [called |-> FALSE, cfg |-> c] : c \in Configs }

\* feeds.InitializeFeeds(cfg, db)
CallInitializeFeeds ==
    /\ ~boot.called
    /\ LET got == InitializeFeeds(boot.cfg)
       IN  boot' = [called |-> TRUE, cfg |-> boot.cfg, err |-> got.err, feeds |-> got.feeds]
    /\ UNCHANGED <<feedVars, storeVars, streamVars, qb, proc, fn, pipe, moreVars>>

NextConfig == CallInitializeFeeds

SpecConfig == InitConfig /\ [][NextConfig]_vars

(***************************************************************************)
(* Properties of SpecConfig                                                *)
(***************************************************************************)
\* some keyword filter or keyword scoring layer of the configuration names
\* a keyword list the configuration does not define
ReferencesUnknownList(cfg) ==
    \E i \in 1..Len(cfg.Feeds) :
        \/ \E j \in 1..Len(cfg.Feeds[i].Filters) :
              LET f == cfg.Feeds[i].Filters[j]
              IN  /\ f.Type = "keyword"
                  /\ \/ \E k \in 1..Len(f.Include) : f.Include[k] \notin DOMAIN cfg.Keywords
                     \/ \E k \in 1..Len(f.Exclude) : f.Exclude[k] \notin DOMAIN cfg.Keywords
        \/ \E j \in 1..Len(cfg.Feeds[i].Scoring) :
              /\ cfg.Feeds[i].Scoring[j].Type = "keyword"
              /\ cfg.Feeds[i].Scoring[j].Keywords \notin DOMAIN cfg.Keywords

\* C12: InitializeFeeds returns an error and no feed map whenever a keyword
\* filter or a keyword scoring layer names a keyword list that is not defined.
C12_UnknownKeywordListFails ==
    (boot.called /\ ReferencesUnknownList(boot.cfg)) =>
        (boot.err /\ boot.feeds = <<>>)

(***************************************************************************)
(* SpecProcess: eventProcessor's RepoCommit callback on one operation of a  *)
(* commit: PostProcessor.processPost and DetectLanguage                     *)
(* (firehose/firehose.go).  Confidences are in hundredths.                  *)
(***************************************************************************)
\* getSupportedLanguages: lingua language -> ISO 639-1 code
supportedLanguages == [Afrikaans |-> "af", English |-> "en", Bokmal |-> "nb"]

\* the zero value of lingua.Language, which detectedLang starts with
ZeroLanguage == "Afrikaans"

linguaToISO(lang, languages) ==
    IF lang \in DOMAIN languages THEN languages[lang] ELSE ""

\* isoToLingua: the language with the code, when there is one
isoToLingua(code, languages) ==
    IF \E lang \in DOMAIN languages : languages[lang] = code
    THEN [ok |-> TRUE, lang |-> CHOOSE lang \in DOMAIN languages : languages[lang] = code]
    ELSE [ok |-> FALSE]

\* the sequences that list every element of S once
Orders(S) ==
    { q \in [1..Cardinality(S) -> S] : \A i, j \in 1..Cardinality(S) : i # j => q[i] # q[j] }

RECURSIVE CodesToLanguages(_)
CodesToLanguages(codes) ==
    IF codes = <<>> THEN <<>>
    ELSE LET found == isoToLingua(Head(codes), supportedLanguages)
         IN  (IF found.ok THEN <<found.lang>> ELSE <<>>) \o CodesToLanguages(Tail(codes))

\* eventProcessor: the target languages.  Without configured languages they
\* are all supported languages, in the order the map iteration yields them.
TargetLanguagesOf(languages) ==
    IF Len(languages) = 0 THEN Orders(DOMAIN supportedLanguages)
    ELSE {CodesToLanguages(languages)}

RECURSIVE getTargetIsoCodes(_)
getTargetIsoCodes(targetLanguages) ==
    IF targetLanguages = <<>> THEN <<>>
    ELSE LET code == linguaToISO(Head(targetLanguages), supportedLanguages)
         IN  (IF code # "" THEN <<code>> ELSE <<>>) \o getTargetIsoCodes(Tail(targetLanguages))

Contains(list, x) == \E i \in 1..Len(list) : list[i] = x

RECURSIVE HighestConfidence(_, _, _)
\* the loop of DetectLanguage: the first language of the list with the
\* highest confidence, when that is above 0
HighestConfidence(langs, conf, best) ==
    IF langs = <<>> THEN best
    ELSE HighestConfidence(Tail(langs), conf,
             IF conf[Head(langs)] > best.highestConf
             THEN [highestConf |-> conf[Head(langs)], detectedLang |-> Head(langs)]
             ELSE best)

\* PostProcessor.DetectLanguage(text, currentLangs, targetLangs); conf is
\* ComputeLanguageConfidence(text, .) of the processor's detector
DetectLanguage(conf, threshold, currentLangs, targetLangs) ==
    LET best == HighestConfidence(<<"English">> \o targetLangs, conf,
                                  [highestConf |-> 0, detectedLang |-> ZeroLanguage])
        langCode == linguaToISO(best.detectedLang, supportedLanguages)
    IN  IF best.highestConf < threshold \/ best.detectedLang = "English"
        THEN [ok |-> FALSE, langs |-> currentLangs, detected |-> best]
        ELSE [ok |-> TRUE,
              langs |-> IF langCode # "" /\ ~Contains(currentLangs, langCode)
                        THEN Append(currentLangs, langCode) ELSE currentLangs,
              detected |-> best]

\* a gate that lets a post without language tags pass
DeclaredLanguageGateOpen(langs, targetCodes) ==
    Len(langs) = 0 \/ \E i \in 1..Len(langs) : Contains(targetCodes, langs[i])

\* len(record.Langs) > 0 && lo.Some(record.Langs, targetCodes)
DeclaredLanguageGate(langs, targetCodes) ==
    Len(langs) > 0 /\ \E i \in 1..Len(langs) : Contains(targetCodes, langs[i])

\* processPost(evt, op, record).  record.Quality names the first of the
\* checks on the text that rejects it (word count, HasEnoughLetters,
\* ContainsRepetitivePattern, ContainsSpamContent), "ok" when none does.
processPost(p, conf, uri, record) ==
    IF record.Quality # "ok"
    THEN [gate |-> "none", reset |-> FALSE, events |-> <<>>, err |-> FALSE]
    ELSE LET detected == DetectLanguage(conf, p.config.ConfidenceThreshold,
                                        record.Langs, p.targetLanguages)
             shouldProcess ==
                 IF p.config.RunLanguageDetection THEN detected.ok
                 ELSE DeclaredLanguageGate(record.Langs,
                                           getTargetIsoCodes(p.targetLanguages))
             langs == IF p.config.RunLanguageDetection THEN detected.langs
                      ELSE record.Langs
             best == IF p.config.RunLanguageDetection THEN detected.detected
                     ELSE [highestConf |-> 0, detectedLang |-> ZeroLanguage]
         IN  IF ~shouldProcess
             THEN [gate |-> "rejected", reset |-> FALSE, events |-> <<>>, err |-> FALSE,
                   detected |-> best]
             ELSE IF ~record.CreatedAtParses
             THEN [gate |-> "accepted", reset |-> TRUE,
                   events |-> << [type |-> "ProcessSeqEvent"] >>, err |-> TRUE,
                   detected |-> best]
             ELSE [gate |-> "accepted", reset |-> TRUE,
                   events |-> << [type |-> "ProcessSeqEvent"],
                                 [type |-> "CreatePostEvent",
                                  Post |-> [Uri |-> uri, Text |-> record.Text,
                                            Languages |-> langs]] >>,
                   err |-> FALSE, detected |-> best]

\* the body of RepoCommit's loop for one operation
RepoCommitOp(p, conf, op, record) ==
    IF op.Path[1] # "app.bsky.feed.post"
    THEN [gate |-> "none", reset |-> FALSE, events |-> <<>>, err |-> FALSE]
    ELSE IF op.Action # "create" /\ op.Action # "update"
    THEN [gate |-> "none", reset |-> FALSE, events |-> <<>>, err |-> FALSE]
    ELSE IF ~record.Readable
    THEN [gate |-> "none", reset |-> FALSE, events |-> <<>>, err |-> FALSE]
    ELSE processPost(p, conf, <<"at://", "did:plc:a", op.Path>>, record)

\* FirehoseConfig values
ProcessConfigs ==
    { [RunLanguageDetection |-> d, ConfidenceThreshold |-> t, Languages |-> l] :
        d \in BOOLEAN, t \in {0, 60},
        l \in { <<>>, <<"nb">>, <<"en", "nb">>, <<"nb", "tlh">> } }

\* the processors eventProcessor may build
PostProcessors ==
    UNION { { [config |-> c, targetLanguages |-> t] : t \in TargetLanguagesOf(c.Languages) } :
              c \in ProcessConfigs }

ProcessOps ==
    { [Action |-> a, Path |-> <<c, "3k">>] :
        a \in {"create", "update", "delete"},
        c \in {"app.bsky.feed.post", "app.bsky.feed.like"} }

ProcessRecords ==
    { [Readable |-> TRUE, Text |-> "tekst", Quality |-> q, Langs |-> l, CreatedAtParses |-> c] :
        q \in {"ok", "short", "letters", "repetitive", "spam"},
        l \in { <<>>, <<"nb">>, <<"en">>, <<"de", "nb">> },
        c \in BOOLEAN }
    \cup { [Readable |-> FALSE] }

\* confidences of the supported languages for one text: they add up to at
\* most 1 (the rest lies with languages outside the model)
Confidences ==
    { c \in [DOMAIN supportedLanguages -> {0, 50, 90}] :
        c["Afrikaans"] + c["English"] + c["Bokmal"] <= 100 }

InitProcess ==
    /\ FeedIdle /\ StoreIdle /\ StreamIdle /\ QueryIdle /\ ConfigIdle /\ FnIdle /\ PipeIdle /\ MoreIdle
    /\ proc \in { [pc |-> "ready", p |-> p, conf |-> c] :
                    p \in PostProcessors, c \in Confidences }

\* RepoCommit is called with an operation and the record it carries
RepoCommit(op, record) ==
    /\ proc.pc = "ready"
    /\ proc' = [pc |-> "done", p |-> proc.p, conf |-> proc.conf, op |-> op,
                record |-> record,
                out |-> RepoCommitOp(proc.p, proc.conf, op, record)]
    /\ UNCHANGED <<feedVars, storeVars, streamVars, qb, boot, fn, pipe, moreVars>>

NextProcess == \E op \in ProcessOps, record \in ProcessRecords : RepoCommit(op, record)

SpecProcess == InitProcess /\ [][NextProcess]_vars

(***************************************************************************)
(* Properties of SpecProcess                                               *)
(***************************************************************************)
TargetSet == { proc.p.targetLanguages[i] : i \in 1..Len(proc.p.targetLanguages) }

\* the post went through the language gate under the given mode
Gated(detection) ==
    /\ proc.pc = "done"
    /\ proc.p.config.RunLanguageDetection = detection
    /\ proc.out.gate # "none"

\* C17: with detection enabled, an accepted post has a detected language
\* that is a target language, with a confidence of at least the threshold,
\* and not (English confidence > 0.8 and English not a target).
C17_AcceptedIsTargetLanguage ==
    (Gated(TRUE) /\ proc.out.gate = "accepted") =>
        /\ proc.out.detected.detectedLang \in TargetSet
        /\ proc.conf[proc.out.detected.detectedLang] >= proc.p.config.ConfidenceThreshold
        /\ ~(proc.conf["English"] > 80 /\ "English" \notin TargetSet)

C19_EnglishTargetAccepted ==
    ( /\ Gated(TRUE)
      /\ "English" \in TargetSet
      /\ \A t \in TargetSet \ {"English"} : proc.conf[t] < proc.conf["English"]
      /\ proc.conf["English"] > 0
      /\ proc.conf["English"] >= proc.p.config.ConfidenceThreshold )
    => proc.out.gate = "accepted"

\* C20: a CreatePostEvent comes only from an operation with action create
\* on the collection app.bsky.feed.post.
C20_OnlyCreateOfPosts ==
    (proc.pc = "done" /\ \E i \in 1..Len(proc.out.events) :
                            proc.out.events[i].type = "CreatePostEvent")
    => (proc.op.Action = "create" /\ proc.op.Path[1] = "app.bsky.feed.post")

(***************************************************************************)
(* SpecScore: a FeedQueryBuilder is given scoring layers and                *)
(* DB.GetFeedPosts runs its statement on rows that differ in age, text and  *)
(* author.                                                                  *)
(***************************************************************************)
\* scoring entries of a feed configuration; the weights 0.0000004 and
\* 0.0000003 have more decimals than "%f" prints
ScoreConfigs ==
    { TomlScoring("time_decay", Thousandth, "", <<>>),
      TomlScoring("time_decay", 4, "", <<>>),
      TomlScoring("keyword", 2 * Thousandth, "ski", <<>>),
      TomlScoring("keyword", 3, "ski", <<>>),
      TomlScoring("author", Thousandth, "", << [DID |-> "did:plc:a", Weight |-> 2 * One] >>) }

ScoreCreatedAts == <<10, 13>>

ScoreTsVectors == << {"ski"}, {"bot"} >>

ScoreAuthors == <<"did:plc:a", "did:plc:b">>

\* one row per combination of age, text and author, numbered in the order of
\* insertion
ScoreRows ==
    { [id |-> ((v - 1) * Len(ScoreAuthors) + (a - 1)) * Len(ScoreCreatedAts) + c,
       uri |-> <<"at://post", c, v, a>>, created_at |-> ScoreCreatedAts[c],
       languages |-> <<"nb">>, parent_uri |-> None,
       ts_vector |-> ScoreTsVectors[v], author_did |-> ScoreAuthors[a]] :
        c \in 1..Len(ScoreCreatedAts), v \in 1..Len(ScoreTsVectors),
        a \in 1..Len(ScoreAuthors) }

ScoreTables == { t \in SUBSET ScoreRows : Cardinality(t) <= MaxQueryRows }

InitScore ==
    /\ FeedIdle /\ StoreIdle /\ StreamIdle /\ ConfigIdle /\ ProcessIdle /\ FnIdle /\ PipeIdle /\ MoreIdle
    /\ qb \in { [table |-> t, builder |-> NewFeedQueryBuilder, ran |-> FALSE] :
                  t \in ScoreTables }

\* InitializeFeeds adds the scoring layer made from a configuration entry
ScoreAddScoringLayer(config) ==
    /\ ~qb.ran
    /\ Len(qb.builder.scoringLayers) < MaxLayers
    /\ qb' = [qb EXCEPT !.builder =
                 AddScoringLayer(@, createScoringStrategy(config, QueryKeywords).strategy,
                                 config.Weight)]
    /\ QueryFrame

NextScore ==
    \/ \E config \in ScoreConfigs : ScoreAddScoringLayer(config)
    \/ QueryRun

SpecScore == InitScore /\ [][NextScore]_vars

(***************************************************************************)
(* Properties of SpecScore                                                 *)
(***************************************************************************)
\* the row of the table with the id
RowOf(id) == CHOOSE r \in qb.table : r.id = id

\* C21: the posts of a feed with several scoring layers come in descending
\* order of the sum over the layers of weight * expression (the weights as
\* configured), posts of equal sum in descending order of id.
C21_ScoreIsWeightedSum ==
    (qb.ran /\ Len(qb.builder.scoringLayers) >= 2 /\ ~qb.err) =>
        \A i, j \in 1..Len(qb.posts) :
            i < j =>
              LET si == ScoreSum(qb.builder.scoringLayers, RowOf(qb.posts[i].id))
                  sj == ScoreSum(qb.builder.scoringLayers, RowOf(qb.posts[j].id))
              IN  si > sj \/ (si = sj /\ qb.posts[i].id > qb.posts[j].id)

(***************************************************************************)
(* SpecLimit: the getFeedSkeleton handler (server/server.go) reads the      *)
(* limit parameter of a request and calls the feed with it.                 *)
(***************************************************************************)
\* the base a prefix letter selects in strconv.ParseUint(s, 0, .)
PrefixBase(c) == CASE c = "b" -> 2 [] c = "o" -> 8 [] c = "x" -> 16 [] OTHER -> 0

RECURSIVE ParseBaseDigits(_, _, _)
\* the digits of s read in the base; ok is FALSE at a character that is no
\* digit of the base
ParseBaseDigits(s, base, acc) ==
    IF s = <<>> THEN [ok |-> TRUE, val |-> acc]
    ELSE IF IsDigit(Head(s)) /\ DigitVal(Head(s)) < base
         THEN ParseBaseDigits(Tail(s), base, acc * base + DigitVal(Head(s)))
         ELSE [ok |-> FALSE, val |-> 0]

\* strconv.ParseUint(s, 0, .): a leading 0 selects base 8, or with b, o, x
\* and at least one more character base 2, 8, 16; otherwise base 10
ParseUintBase0(s) ==
    IF s = <<>> THEN [ok |-> FALSE, val |-> 0]
    ELSE IF Head(s) = "0"
         THEN IF Len(s) >= 3 /\ PrefixBase(s[2]) # 0
              THEN ParseBaseDigits(SubSeq(s, 3, Len(s)), PrefixBase(s[2]), 0)
              ELSE ParseBaseDigits(Tail(s), 8, 0)
         ELSE ParseBaseDigits(s, 10, 0)

\* strconv.ParseInt(s, 0, 32)
ParseIntBase0(s) ==
    LET signed == s # <<>> /\ Head(s) \in {"+", "-"}
        un     == ParseUintBase0(IF signed THEN Tail(s) ELSE s)
        val    == IF signed /\ Head(s) = "-" THEN 0 - un.val ELSE un.val
    IN  IF s = <<>> \/ ~un.ok \/ val < 0 - 2147483647 - 1 \/ val > 2147483647
        THEN [ok |-> FALSE, val |-> 0]
        ELSE [ok |-> TRUE, val |-> val]

\* fiber's c.Query(key, defaultValue): the default for an absent or empty
\* parameter
Query(param, defaultValue) ==
    IF param = None \/ param[1] = <<>> THEN defaultValue ELSE param[1]

\* the handler of /xrpc/app.bsky.feed.getFeedSkeleton: feed is "served" for
\* the URI of a configured feed, "unknown" for another feed URI, "invalid"
\* for a string that is no AT URI
getFeedSkeleton(limitParam, feed) ==
    LET parsed == ParseIntBase0(Query(limitParam, <<"2", "0">>))
        limit  == IF ~parsed.ok \/ parsed.val < 1 \/ parsed.val > 100 THEN 20
                  ELSE parsed.val
    IN  CASE feed = "invalid" -> [status |-> 400, called |-> FALSE]
          [] feed = "unknown" -> [status |-> 400, called |-> FALSE]
          [] feed = "served"  -> [status |-> 200, called |-> TRUE, limit |-> limit]

LimitChars == {"-", "0", "1", "2", "x"}

\* the limit parameter of a request: absent, or a string of the characters
LimitParams ==
    {None} \cup { Some(t) : t \in UNION { [1..n -> LimitChars] : n \in 0..MaxLimitLen } }

InitLimit ==
    /\ FeedIdle /\ StoreIdle /\ StreamIdle /\ QueryIdle /\ ConfigIdle /\ ProcessIdle /\ PipeIdle /\ MoreIdle
    /\ fn \in { [pc |-> "request", in |-> [limit |-> l, feed |-> f]] :
                  l \in LimitParams, f \in {"served", "unknown", "invalid"} }

HandleGetFeedSkeleton ==
    /\ fn.pc = "request"
    /\ fn' = [pc |-> "responded", in |-> fn.in,
              out |-> getFeedSkeleton(fn.in.limit, fn.in.feed)]
    /\ UNCHANGED <<feedVars, storeVars, streamVars, qb, boot, proc, pipe, moreVars>>

NextLimit == HandleGetFeedSkeleton

SpecLimit == InitLimit /\ [][NextLimit]_vars

(***************************************************************************)
(* Properties of SpecLimit                                                 *)
(***************************************************************************)
\* the limit parameter is the decimal numeral of an integer
IsNumeral(param) ==
    /\ param # None
    /\ ParseInt(param[1]).ok
    /\ FormatInt(ParseInt(param[1]).val) = param[1]

Clamp(n, lo, hi) == IF n < lo THEN lo ELSE IF n > hi THEN hi ELSE n

\* C22: a request for a served feed calls the feed whatever its limit is,
\* with limit 20 when the parameter is absent and with the requested limit
\* clamped to 1..100 when it is a number.
C22_LimitClamped ==
    (fn.pc = "responded" /\ fn.in.feed = "served") =>
        /\ fn.out.called
        /\ fn.in.limit = None => fn.out.limit = 20
        /\ IsNumeral(fn.in.limit) =>
               fn.out.limit = Clamp(ParseInt(fn.in.limit[1]).val, 1, 100)

(***************************************************************************)
(* SpecKeyword: DB.GetFeed (db/db.go) prepares a keyword for the text       *)
(* search query; the prepared keyword is prepared once more.                *)
(***************************************************************************)
ToLowerChar(c) == CASE c = "A" -> "a" [] c = "X" -> "x" [] OTHER -> c

\* strings.ToLower
ToLower(q) == [ i \in 1..Len(q) |-> ToLowerChar(q[i]) ]

\* strings.TrimSpace(q) == ""
IsBlank(q) == \A i \in 1..Len(q) : q[i] = " "

\* the body of the loop over the keywords: None when the keyword is
\* skipped, otherwise the term appended to includeTerms
PrepareKeyword(query) ==
    IF IsBlank(query) THEN None
    ELSE LET lower       == ToLower(query)
             hasWildcard == lower[Len(lower)] = "*"
             stem        == IF hasWildcard THEN SubSeq(lower, 1, Len(lower) - 1) ELSE lower
             quoted      == IF \E i \in 1..Len(stem) : stem[i] = " "
                            THEN <<"\"">> \o stem \o <<"\"">> ELSE stem
         IN  Some(IF hasWildcard THEN Append(quoted, "*") ELSE quoted)

KeywordChars == {"a", "A", " ", "*"}

KeywordTokens == UNION { [1..n -> KeywordChars] : n \in 0..MaxTokenLen }

InitKeyword ==
    /\ FeedIdle /\ StoreIdle /\ StreamIdle /\ QueryIdle /\ ConfigIdle /\ ProcessIdle /\ PipeIdle /\ MoreIdle
    /\ fn \in { [pc |-> "keyword", in |-> t] : t \in KeywordTokens }

FnFrame == UNCHANGED <<feedVars, storeVars, streamVars, qb, boot, proc, pipe, moreVars>>

\* the keyword goes through the loop body
Prepare ==
    /\ fn.pc = "keyword"
    /\ fn' = [pc |-> "prepared", in |-> fn.in, out |-> PrepareKeyword(fn.in)]
    /\ FnFrame

\* the term it gave is a keyword of a later call
PrepareAgain ==
    /\ fn.pc = "prepared"
    /\ fn.out # None
    /\ fn' = [pc |-> "again", in |-> fn.in, out |-> fn.out,
              again |-> PrepareKeyword(fn.out[1])]
    /\ FnFrame

NextKeyword == Prepare \/ PrepareAgain

SpecKeyword == InitKeyword /\ [][NextKeyword]_vars

(***************************************************************************)
(* Properties of SpecKeyword                                               *)
(***************************************************************************)
\* C23: preparing a prepared keyword returns it unchanged.
C23_PrepareIdempotent == fn.pc = "again" => fn.again = fn.out

(***************************************************************************)
(* Texts of posts (firehose/firehose.go).  A text is a sequence of code     *)
(* points; a code point is a one-character string, or its U+ name when it   *)
(* is outside ASCII: U+00E6 (ae, a letter), U+0301 (combining acute accent, *)
(* a nonspacing mark), U+200D (zero-width joiner), U+FFFD (replacement      *)
(* character), U+1F600 (an emoji).                                          *)
(***************************************************************************)
\* the number of bytes of the UTF-8 encoding of the code point
Utf8Len(c) ==
    CASE c = "U+00E6"  -> 2
      [] c = "U+0301"  -> 2
      [] c = "U+200D"  -> 3
      [] c = "U+FFFD"  -> 3
      [] c = "U+1F600" -> 4
      [] OTHER         -> 1

RECURSIVE ByteLen(_)
\* len(text)
ByteLen(text) == IF text = <<>> THEN 0 ELSE Utf8Len(Head(text)) + ByteLen(Tail(text))

\* a-z, A-Z and the Norwegian letters, of the code points of the model
IsLetter(c) == c \in {"a", "b", "x", "A", "X", "U+00E6"}

\* the number of elements of the sequence that satisfy the test
Count(text, Test(_)) == Cardinality({ i \in 1..Len(text) : Test(text[i]) })

\* HasEnoughLetters: more than 30% letters; the ratio is a quotient of two
\* float64 values, compared here as letterCount * 10 > 3 * len(text)
HasEnoughLetters(text) ==
    IF ByteLen(text) = 0 THEN FALSE
    ELSE Count(text, IsLetter) * 10 > 3 * ByteLen(text)

(***************************************************************************)
(* SpecLetters: HasEnoughLetters on a text                                  *)
(***************************************************************************)
LetterChars == {"a", "1", "U+00E6", "U+1F600"}

LetterTexts == UNION { [1..n -> LetterChars] : n \in 0..MaxTextLen }

InitLetters ==
    /\ FeedIdle /\ StoreIdle /\ StreamIdle /\ QueryIdle /\ ConfigIdle /\ ProcessIdle /\ PipeIdle /\ MoreIdle
    /\ fn \in { [pc |-> "letters", in |-> t] : t \in LetterTexts }

CallHasEnoughLetters ==
    /\ fn.pc = "letters"
    /\ fn' = [pc |-> "lettersDone", in |-> fn.in, out |-> HasEnoughLetters(fn.in)]
    /\ FnFrame

NextLetters == CallHasEnoughLetters

SpecLetters == InitLetters /\ [][NextLetters]_vars

(***************************************************************************)
(* Properties of SpecLetters                                               *)
(***************************************************************************)
\* C27: HasEnoughLetters is true exactly when the letters are strictly more
\* than 30% of the code points of the text (never for the empty text).
C27_LetterRatioOfCodePoints ==
    fn.pc = "lettersDone" =>
        (fn.out <=> (Len(fn.in) > 0 /\ Count(fn.in, IsLetter) * 10 > 3 * Len(fn.in)))

(***************************************************************************)
(* ContainsRepetitivePattern                                               *)
(***************************************************************************)
\* strings.ReplaceAll(text, " ", "")
RemoveSpaces(text) == SelectSeq(text, LAMBDA c : c # " ")

\* unicode.Is(unicode.Mn, r), the zero-width joiner or the variation selector
IsJoining(c) == c \in {"U+0301", "U+200D", "U+FE0F"}

\* utf8.RuneError, which DecodeRuneInString also returns for a well-formed
\* U+FFFD
RuneError == "U+FFFD"

RECURSIVE SplitClusters(_, _)
\* the loop that splits the text: a code point equal to RuneError is passed
\* over, any other starts a cluster that takes the joining code points after
\* it; cur is the cluster being built (<<>> before the first)
SplitClusters(text, cur) ==
    IF text = <<>> THEN (IF cur = <<>> THEN <<>> ELSE <<cur>>)
    ELSE IF cur # <<>> /\ Head(text) # RuneError /\ IsJoining(Head(text))
         THEN SplitClusters(Tail(text), Append(cur, Head(text)))
         ELSE (IF cur = <<>> THEN <<>> ELSE <<cur>>)
              \o (IF Head(text) = RuneError THEN SplitClusters(Tail(text), <<>>)
                  ELSE SplitClusters(Tail(text), <<Head(text)>>))

RECURSIVE RepeatingClusters(_, _, _)
\* the loop over the clusters that counts a run of equal clusters
RepeatingClusters(clusters, lastCluster, repeatingClusters) ==
    IF clusters = <<>> THEN FALSE
    ELSE IF Head(clusters) = lastCluster
         THEN repeatingClusters + 1 >= 4
              \/ RepeatingClusters(Tail(clusters), lastCluster, repeatingClusters + 1)
         ELSE RepeatingClusters(Tail(clusters), Head(clusters), 1)

RECURSIVE PatternRepeats(_, _, _, _, _)
\* the loop over j: the pattern at i (0-based) of length patternLen is met
\* again at j, j + patternLen, ... until minRepeats are counted
PatternRepeats(clusters, i, j, patternLen, repeats) ==
    IF j > Len(clusters) - patternLen THEN FALSE
    ELSE IF \A k \in 0..(patternLen - 1) : clusters[j + k + 1] = clusters[i + k + 1]
         THEN repeats + 1 >= (IF patternLen >= 4 THEN 2 ELSE 4)
              \/ PatternRepeats(clusters, i, j + patternLen, patternLen, repeats + 1)
         ELSE FALSE

ContainsRepetitivePattern(text) ==
    LET stripped == RemoveSpaces(ToLower(text))
        clusters == SplitClusters(stripped, <<>>)
    IN  IF ByteLen(stripped) < 4 THEN FALSE
        ELSE \/ RepeatingClusters(clusters, <<>>, 0)
             \/ \E patternLen \in 2..8 :
                  /\ Len(clusters) >= patternLen * 2
                  /\ \E i \in 0..(Len(clusters) - patternLen * 2) :
                        PatternRepeats(clusters, i, i + patternLen, patternLen, 1)

(***************************************************************************)
(* SpecRepeat: ContainsRepetitivePattern on a text                          *)
(***************************************************************************)
RepeatChars == {"a", "b", "A", " ", "U+0301", "U+FFFD"}

RECURSIVE Times(_, _)
\* the pattern n times
Times(pattern, n) == IF n = 0 THEN <<>> ELSE pattern \o Times(pattern, n - 1)

\* every short text, and the texts that repeat a pattern 2 to 4 times
RepeatTexts ==
    UNION { [1..n -> RepeatChars] : n \in 0..MaxRepeatLen }
    \cup { Times(pattern, n) :
             pattern \in UNION { [1..k -> {"a", "b"}] : k \in 2..MaxPatternLen },
             n \in 2..4 }

InitRepeat ==
    /\ FeedIdle /\ StoreIdle /\ StreamIdle /\ QueryIdle /\ ConfigIdle /\ ProcessIdle /\ PipeIdle /\ MoreIdle
    /\ fn \in { [pc |-> "repeat", in |-> t] : t \in RepeatTexts }

CallContainsRepetitivePattern ==
    /\ fn.pc = "repeat"
    /\ fn' = [pc |-> "repeatDone", in |-> fn.in, out |-> ContainsRepetitivePattern(fn.in)]
    /\ FnFrame

NextRepeat == CallContainsRepetitivePattern

SpecRepeat == InitRepeat /\ [][NextRepeat]_vars

(***************************************************************************)
(* Properties of SpecRepeat                                                *)
(***************************************************************************)
RECURSIVE GraphemeClusters(_)
\* a cluster is a base code point with the nonspacing marks, joiners and
\* variation selectors that follow it
GraphemeClusters(text) ==
    IF text = <<>> THEN <<>>
    ELSE LET rest == GraphemeClusters(Tail(text))
         IN  IF rest # <<>> /\ IsJoining(rest[1][1])
             THEN << <<Head(text)>> \o rest[1] >> \o Tail(rest)
             ELSE << <<Head(text)>> >> \o rest

\* the window of k clusters at i stands n times in a row
WindowRepeats(c, i, k, n) ==
    /\ i + n * k - 1 <= Len(c)
    /\ \A m \in 0..((n - 1) * k - 1) : c[i + m] = c[i + m + k]

\* C25: ContainsRepetitivePattern is true exactly when, in the clusters of
\* the lowercased text without spaces, a cluster stands 4 or more times in a
\* row, or a window of k clusters, 2 <= k <= 8, stands min_reps times in a
\* row, min_reps being 4 for k in {2, 3} and 2 for k in 4..8.
C25_RepetitiveExactly ==
    fn.pc = "repeatDone" =>
        LET c == GraphemeClusters(RemoveSpaces(ToLower(fn.in)))
        IN  fn.out <=>
              \/ \E i \in 1..Len(c) : WindowRepeats(c, i, 1, 4)
              \/ \E k \in 2..8, i \in 1..Len(c) :
                    WindowRepeats(c, i, k, IF k >= 4 THEN 2 ELSE 4)

(***************************************************************************)
(* ContainsSpamContent                                                     *)
(***************************************************************************)
spamPatterns ==
    << <<"o", "n", "l", "y", "f", "a", "n", "s", ".", "c", "o", "m">>,
       <<"j", "o", "i", "n", " ", "m", "y", " ", "v", "i", "p">>,
       <<"s", "u", "b", "s", "c", "r", "i", "b", "e", " ", "t", "o", " ", "m", "y">>,
       <<"c", "h", "e", "c", "k", " ", "m", "y", " ", "p", "r", "o", "f", "i", "l", "e">>,
       <<"c", "h", "e", "c", "k", " ", "m", "y", " ", "b", "i", "o">>,
       <<"l", "i", "n", "k", " ", "i", "n", " ", "b", "i", "o">>,
       <<"l", "i", "n", "k", " ", "i", "n", " ", "p", "r", "o", "f", "i", "l", "e">>,
       <<"f", "o", "l", "l", "o", "w", " ", "m", "e">>,
       <<"f", "o", "l", "l", "o", "w", " ", "b", "a", "c", "k">>,
       <<"f", "o", "l", "l", "o", "w", " ", "f", "o", "r", " ", "f", "o", "l", "l", "o", "w">>,
       <<"f", "4", "f">> >>

nsfwTerms ==
    << <<"p", "o", "r", "n">>,
       <<"x", "x", "x">>,
       <<"n", "s", "f", "w">>,
       <<"1", "8", "+">> >>

\* strings.Contains(text, sub)
StringsContains(text, sub) ==
    \E i \in 0..(Len(text) - Len(sub)) : SubSeq(text, i + 1, i + Len(sub)) = sub

RECURSIVE StringsCount(_, _)
\* strings.Count(text, sub): the occurrences of sub that do not overlap
StringsCount(text, sub) ==
    IF Len(text) < Len(sub) THEN 0
    ELSE IF SubSeq(text, 1, Len(sub)) = sub
         THEN 1 + StringsCount(SubSeq(text, Len(sub) + 1, Len(text)), sub)
         ELSE StringsCount(Tail(text), sub)

RECURSIVE Fields(_, _)
\* strings.Fields(text): the words between white space; word is the word
\* being read
Fields(text, word) ==
    IF text = <<>> THEN (IF word = <<>> THEN <<>> ELSE <<word>>)
    ELSE IF Head(text) = " "
         THEN (IF word = <<>> THEN <<>> ELSE <<word>>) \o Fields(Tail(text), <<>>)
         ELSE Fields(Tail(text), Append(word, Head(text)))

\* r >= 0x1F300
IsEmoji(c) == c = "U+1F600"

RECURSIVE EmojiSpamAbove8(_, _)
\* an emoji loop that returns true from the 8th emoji on
EmojiSpamAbove8(text, emojiCount) ==
    IF text = <<>> THEN FALSE
    ELSE IF IsEmoji(Head(text))
         THEN emojiCount + 1 >= 8 \/ EmojiSpamAbove8(Tail(text), emojiCount + 1)
         ELSE EmojiSpamAbove8(Tail(text), emojiCount)

RECURSIVE EmojiSpam(_, _)
\* the emoji loop: true at the 9th code point from U+1F300 on
EmojiSpam(text, emojiCount) ==
    IF text = <<>> THEN FALSE
    ELSE IF IsEmoji(Head(text))
         THEN emojiCount + 1 > 8 \/ EmojiSpam(Tail(text), emojiCount + 1)
         ELSE EmojiSpam(Tail(text), emojiCount)

ContainsSpamContent(text) ==
    LET lowerText    == ToLower(text)
        hashtagCount == StringsCount(text, <<"#">>)
        mentionCount == StringsCount(text, <<"@">>)
        words        == Fields(text, <<>>)
    IN  IF \E i \in 1..Len(spamPatterns) : StringsContains(lowerText, spamPatterns[i])
        THEN TRUE
        ELSE IF \E i \in 1..Len(nsfwTerms) : StringsContains(lowerText, nsfwTerms[i])
        THEN TRUE
        ELSE IF EmojiSpam(text, 0) THEN TRUE
        ELSE IF hashtagCount > 5 THEN TRUE
        ELSE IF mentionCount > 5 THEN TRUE
        ELSE IF StringsCount(text, <<"#", "#">>) > 0 \/ StringsCount(text, <<"@", "@">>) > 0
        THEN TRUE
        ELSE IF Len(words) > 0 /\ (hashtagCount + mentionCount) * 2 > Len(words)
        THEN TRUE
        ELSE FALSE

(***************************************************************************)
(* SpecSpam: ContainsSpamContent on a text                                  *)
(***************************************************************************)
SpamWords ==
    { <<"a">>, <<"#", "a">>, <<"@", "a">>, <<"#">>, <<"@">>, <<"U+1F600">>, <<"x">>,
      <<"X">> }

RECURSIVE JoinWords(_, _)
\* the words one after the other with the separator between them
JoinWords(words, sep) ==
    IF words = <<>> THEN <<>>
    ELSE IF Len(words) = 1 THEN words[1]
    ELSE words[1] \o sep \o JoinWords(Tail(words), sep)

\* a text is n1 times one word and n2 times another, separated by a space or
\* by nothing
SpamTexts ==
    { JoinWords([i \in 1..(n1 + n2) |-> IF i <= n1 THEN w1 ELSE w2], sep) :
        w1 \in SpamWords, w2 \in SpamWords, n1 \in 0..MaxWords, n2 \in 0..MaxWords,
        sep \in {<<>>, <<" ">>} }

InitSpam ==
    /\ FeedIdle /\ StoreIdle /\ StreamIdle /\ QueryIdle /\ ConfigIdle /\ ProcessIdle /\ PipeIdle /\ MoreIdle
    /\ fn \in { [pc |-> "spam", in |-> t] : t \in SpamTexts }

CallContainsSpamContent ==
    /\ fn.pc = "spam"
    /\ fn' = [pc |-> "spamDone", in |-> fn.in, out |-> ContainsSpamContent(fn.in)]
    /\ FnFrame

NextSpam == CallContainsSpamContent

SpecSpam == InitSpam /\ [][NextSpam]_vars

(***************************************************************************)
(* Properties of SpecSpam                                                  *)
(***************************************************************************)
\* the positions of the text where a word starts
WordStarts(text) ==
    { i \in 1..Len(text) : text[i] # " " /\ (i = 1 \/ text[i - 1] = " ") }

\* the sequence stands somewhere in the text
Occurs(text, sub) ==
    \E i \in 1..Len(text) :
        /\ i + Len(sub) - 1 <= Len(text)
        /\ \A k \in 1..Len(sub) : text[i + k - 1] = sub[k]

Hashes(text) == Count(text, LAMBDA c : c = "#")

Ats(text) == Count(text, LAMBDA c : c = "@")

\* C26: ContainsSpamContent is true exactly when the lowercased text has a
\* blocklisted phrase, or more than 8 code points are emoji, or there are
\* more than 5 '#', or more than 5 '@', or the text has "##" or "@@", or
\* the '#' and '@' together are more than half the number of words.
C26_SpamExactly ==
    fn.pc = "spamDone" =>
        (fn.out <=>
            \/ \E i \in 1..Len(spamPatterns) : Occurs(ToLower(fn.in), spamPatterns[i])
            \/ \E i \in 1..Len(nsfwTerms) : Occurs(ToLower(fn.in), nsfwTerms[i])
            \/ Count(fn.in, IsEmoji) > 8
            \/ Hashes(fn.in) > 5
            \/ Ats(fn.in) > 5
            \/ Occurs(fn.in, <<"#", "#">>)
            \/ Occurs(fn.in, <<"@", "@">>)
            \/ (Hashes(fn.in) + Ats(fn.in)) * 2 > Cardinality(WordStarts(fn.in)))

\* a text of nine emoji and nothing else that makes it spam is reported
C26_Witness ==
    /\ fn.pc = "spamDone" /\ fn.out
    /\ Count(fn.in, IsEmoji) = 9
    /\ Hashes(fn.in) + Ats(fn.in) = 0
    /\ ~Occurs(ToLower(fn.in), <<"x", "x", "x">>)

(***************************************************************************)
(* SpecPipe: the reader goroutine of SubscribeJetstreamWithMessages         *)
(* (firehose/jetstream_client.go), the worker queue and the workers of the  *)
(* parallel processor (firehose/parallel_processor.go) of one subscription. *)
(* The upstream sends the frames 1, 2, ... in this order.                   *)
(***************************************************************************)
Workers == 1..NumWorkers

InitPipe ==
    /\ FeedIdle /\ StoreIdle /\ StreamIdle /\ QueryIdle /\ ConfigIdle /\ ProcessIdle
    /\ FnIdle /\ MoreIdle
    /\ pipe = [ctxDone |-> FALSE, reader |-> "select", read |-> 0, held |-> 0,
               workerQueue |-> <<>>, running |-> Workers, taken |-> <<>>]

PipeFrame == UNCHANGED <<feedVars, storeVars, streamVars, qb, boot, proc, fn, moreVars>>

\* reader goroutine, select: with the context cancelled return, else call
\* conn.ReadMessage
PipeReaderSelect ==
    /\ pipe.reader = "select"
    /\ pipe' = [pipe EXCEPT !.reader = IF pipe.ctxDone THEN "exited" ELSE "read"]
    /\ PipeFrame

\* a reader that throws the frame away when the queue is full
PipeReadMessageDrops ==
    /\ pipe.reader = "read" /\ pipe.read < MaxFrames
    /\ pipe' = [pipe EXCEPT !.read = @ + 1, !.reader = "select",
                            !.workerQueue = IF Len(@) < QueueCap
                                            THEN Append(@, pipe.read + 1) ELSE @]
    /\ PipeFrame

\* conn.ReadMessage returns the next frame; workerQueue <- rawMsg puts it at
\* the end of the queue, or blocks while the queue is full
PipeReadMessage ==
    /\ pipe.reader = "read" /\ pipe.read < MaxFrames
    /\ IF Len(pipe.workerQueue) < QueueCap
       THEN pipe' = [pipe EXCEPT !.read = @ + 1, !.reader = "select",
                                 !.workerQueue = Append(@, pipe.read + 1)]
       ELSE pipe' = [pipe EXCEPT !.read = @ + 1, !.reader = "send",
                                 !.held = pipe.read + 1]
    /\ PipeFrame

\* the blocked send goes through once the queue has room
PipeEnqueue ==
    /\ pipe.reader = "send" /\ Len(pipe.workerQueue) < QueueCap
    /\ pipe' = [pipe EXCEPT !.reader = "select", !.held = 0,
                            !.workerQueue = Append(@, pipe.held)]
    /\ PipeFrame

\* conn.ReadMessage returns an error: the reader goroutine returns
PipeReadError ==
    /\ pipe.reader = "read"
    /\ pipe' = [pipe EXCEPT !.reader = "exited"]
    /\ PipeFrame

\* startWorker, case msg := <-pp.workerQueue: worker w receives the frame at
\* the head of the queue and processes it
PipeWork(w) ==
    /\ w \in pipe.running
    /\ pipe.workerQueue # <<>>
    /\ pipe' = [pipe EXCEPT !.workerQueue = Tail(@),
                            !.taken = Append(@, [worker |-> w,
                                                 frame |-> Head(pipe.workerQueue)])]
    /\ PipeFrame

\* startWorker, case <-pp.ctx.Done(): worker w returns
PipeWorkerStop(w) ==
    /\ w \in pipe.running /\ pipe.ctxDone
    /\ pipe' = [pipe EXCEPT !.running = @ \ {w}]
    /\ PipeFrame

\* the context of the subscription is cancelled
PipeCancel ==
    /\ ~pipe.ctxDone
    /\ pipe' = [pipe EXCEPT !.ctxDone = TRUE]
    /\ PipeFrame

NextPipe ==
    \/ PipeReaderSelect
    \/ PipeReadMessage
    \/ PipeEnqueue
    \/ PipeReadError
    \/ \E w \in Workers : PipeWork(w)
    \/ \E w \in Workers : PipeWorkerStop(w)
    \/ PipeCancel

SpecPipe == InitPipe /\ [][NextPipe]_vars

(***************************************************************************)
(* Properties of SpecPipe                                                  *)
(***************************************************************************)
\* the frames the workers received, in the order they received them
Handed == [ i \in 1..Len(pipe.taken) |-> pipe.taken[i].frame ]

wsReadTimeout == 6
wsWriteTimeout == 1
wsPingInterval == 3

\* setupConnectionHandlers at time 0, then go managePingPong, then the reader
InitDeadline ==
    /\ FeedIdle /\ StoreIdle /\ StreamIdle /\ QueryIdle /\ ConfigIdle /\ ProcessIdle
    /\ FnIdle /\ PipeIdle /\ ResumeIdle /\ CastIdle /\ CmdIdle
    /\ conn = [state |-> "open", time |-> 0, ctxDone |-> FALSE,
               readDeadline |-> 0 + wsReadTimeout,
               writeDeadline |-> 0 + wsWriteTimeout,
               pinger |-> "running", nextPing |-> 0 + wsPingInterval,
               reader |-> "reading", lastHeard |-> 0]

ConnFrame == UNCHANGED <<feedVars, storeVars, streamVars, auxVars, resume, cast, cmd>>

\* a timer that is due fires before the clock moves on
ReadDue == conn.reader = "reading" /\ conn.time >= conn.readDeadline

PingDue == conn.pinger = "running" /\ conn.time >= conn.nextPing

ConnTimePasses ==
    /\ conn.time < MaxTime
    /\ ~ReadDue /\ ~PingDue
    /\ conn' = [conn EXCEPT !.time = @ + 1]
    /\ ConnFrame

\* the peer sends a data frame: conn.ReadMessage returns it
ConnReadData ==
    /\ conn.state = "open" /\ conn.reader = "reading" /\ ~ReadDue
    /\ conn' = [conn EXCEPT !.lastHeard = conn.time]
    /\ ConnFrame

\* the peer sends a ping or a pong: the handler set by SetPingHandler or
\* SetPongHandler runs
ConnReadControl ==
    /\ conn.state = "open" /\ conn.reader = "reading" /\ ~ReadDue
    /\ conn' = [conn EXCEPT !.lastHeard = conn.time,
                            !.readDeadline = conn.time + wsReadTimeout]
    /\ ConnFrame

\* the pending read fails, on the deadline or on the closed connection: the
\* reader goroutine returns and its deferred conn.Close runs
ConnReadFails ==
    /\ conn.reader = "reading"
    /\ ReadDue \/ conn.state = "closed"
    /\ conn' = [conn EXCEPT !.reader = "exited", !.state = "closed"]
    /\ ConnFrame

\* managePingPong, case <-ticker.C with WriteControl succeeding
ConnPing ==
    /\ PingDue /\ conn.state = "open"
    /\ conn' = [conn EXCEPT !.nextPing = conn.time + wsPingInterval,
                            !.readDeadline = conn.time + wsReadTimeout]
    /\ ConnFrame

\* managePingPong, case <-ticker.C with WriteControl failing
ConnPingFails ==
    /\ PingDue
    /\ conn' = [conn EXCEPT !.pinger = "exited", !.state = "closed"]
    /\ ConnFrame

\* managePingPong, case <-ctx.Done()
ConnPingStop ==
    /\ conn.pinger = "running" /\ conn.ctxDone
    /\ conn' = [conn EXCEPT !.pinger = "exited"]
    /\ ConnFrame

ConnCancel ==
    /\ ~conn.ctxDone
    /\ conn' = [conn EXCEPT !.ctxDone = TRUE]
    /\ ConnFrame

NextDeadline ==
    \/ ConnTimePasses
    \/ ConnReadData
    \/ ConnReadControl
    \/ ConnReadFails
    \/ ConnPing
    \/ ConnPingFails
    \/ ConnPingStop
    \/ ConnCancel

SpecDeadline == InitDeadline /\ [][NextDeadline]_vars

(***************************************************************************)
(* Properties of SpecDeadline                                              *)
(***************************************************************************)
\* C31: the read deadline changes only in a step that receives a control
\* frame from the peer, and a connection whose peer has been silent for
\* longer than wsReadTimeout is closed.
C31_DeadlineExtendedOnlyByPeer ==
    /\ [][conn'.readDeadline # conn.readDeadline => conn'.lastHeard = conn.time]_vars
    /\ [](conn.time - conn.lastHeard > wsReadTimeout => conn.state = "closed")

(***************************************************************************)
(* SpecResume: one run of the subscriber, its stop, and the cursor the     *)
(* next Subscribe computes (firehose.Subscribe, DB.GetLatestPostTimestamp). *)
(* Upstream event e carries the upstream time UpstreamTime(e) (seconds)    *)
(* and a post whose created_at the author's client has written.            *)
(***************************************************************************)
Events == 1..MaxEvents

UpstreamTime(e) == FirstEventTime + (e - 1) * EventGap

\* created_at as the client wrote it: the time of the event, or a clock
\* that is 20 s slow or 20 s fast
ClockSkews == {0 - 20, 0, 20}

\* time.Time.UnixMicro of a time given in seconds
UnixMicro(t) == t * 1000000

\* SELECT created_at FROM posts ORDER BY created_at DESC LIMIT 1; None is the
\* zero time returned for sql.ErrNoRows
GetLatestPostTimestamp(posts) ==
    IF posts = {} THEN None
    ELSE Some(CHOOSE t \in { p.created_at : p \in posts } :
                  \A p \in posts : p.created_at <= t)

\* Subscribe: the cursor handed to the Jetstream client
SubscribeCursor(posts) ==
    LET latestTime == GetLatestPostTimestamp(posts)
    IN  IF latestTime # None THEN UnixMicro(latestTime[1] - 10) ELSE 0

InitResume ==
    /\ FeedIdle /\ StoreIdle /\ StreamIdle /\ QueryIdle /\ ConfigIdle /\ ProcessIdle
    /\ FnIdle /\ PipeIdle /\ ConnIdle /\ CastIdle /\ CmdIdle
    /\ resume = [phase |-> "running", received |-> 0, pending |-> {},
                 posts |-> {}, cursor |-> 0]

ResumeFrame == UNCHANGED <<feedVars, storeVars, streamVars, auxVars, conn, cast, cmd>>

CastFrame == UNCHANGED <<feedVars, storeVars, streamVars, auxVars, conn, resume, cmd>>

CmdFrame == UNCHANGED <<feedVars, storeVars, streamVars, auxVars, conn, resume, cast>>

\* the reader receives the next event of the upstream; its post waits in the
\* worker queue, with a worker or in the post channel
ResumeReceive(skew) ==
    /\ resume.phase = "running" /\ resume.received < MaxEvents
    /\ LET e == resume.received + 1
       IN  resume' = [resume EXCEPT
               !.received = e,
               !.pending = @ \cup {[event |-> e,
                                    created_at |-> UpstreamTime(e) + skew]}]
    /\ ResumeFrame

\* a worker has accepted the post and the writer has stored it: the workers
\* run side by side, so the posts are stored in any order
ResumeCreatePost(p) ==
    /\ resume.phase = "running" /\ p \in resume.pending
    /\ resume' = [resume EXCEPT !.pending = @ \ {p}, !.posts = @ \cup {p}]
    /\ ResumeFrame

\* the process stops: what was received and not stored is gone with it
ResumeStop ==
    /\ resume.phase = "running"
    /\ resume' = [resume EXCEPT !.phase = "stopped"]
    /\ ResumeFrame

\* the process starts again and calls Subscribe
ResumeSubscribe ==
    /\ resume.phase = "stopped"
    /\ resume' = [resume EXCEPT !.phase = "subscribed",
                                !.cursor = SubscribeCursor(resume.posts)]
    /\ ResumeFrame

NextResume ==
    \/ \E skew \in ClockSkews : ResumeReceive(skew)
    \/ \E e \in Events, skew \in ClockSkews :
           ResumeCreatePost([event |-> e, created_at |-> UpstreamTime(e) + skew])
    \/ ResumeStop
    \/ ResumeSubscribe

SpecResume == InitResume /\ [][NextResume]_vars

(***************************************************************************)
(* Properties of SpecResume                                                *)
(***************************************************************************)
\* C32: the cursor computed at restart is not later than the upstream time
\* of any event that was received and not stored when the process stopped.
C32_CursorNotAfterUnpersisted ==
    resume.phase = "subscribed"
        => \A p \in resume.pending :
               resume.cursor <= UnixMicro(UpstreamTime(p.event))

(***************************************************************************)
(* SpecCascade: PostProcessor.processPost on the text of a record, with    *)
(* the checks it calls written down in the order of the calls.             *)
(***************************************************************************)
\* a cascade that looks for spam before it counts the letters
TextChecksSpamFirst(text) ==
    IF Len(Fields(text, <<>>)) < 4
    THEN [calls |-> <<"strings.Fields">>, quality |-> "short"]
    ELSE IF ContainsSpamContent(text)
    THEN [calls |-> <<"strings.Fields", "ContainsSpamContent">>, quality |-> "spam"]
    ELSE IF ~HasEnoughLetters(text)
    THEN [calls |-> <<"strings.Fields", "ContainsSpamContent", "HasEnoughLetters">>,
          quality |-> "letters"]
    ELSE IF ContainsRepetitivePattern(text)
    THEN [calls |-> <<"strings.Fields", "ContainsSpamContent", "HasEnoughLetters",
                      "ContainsRepetitivePattern">>,
          quality |-> "repetitive"]
    ELSE [calls |-> <<"strings.Fields", "ContainsSpamContent", "HasEnoughLetters",
                      "ContainsRepetitivePattern">>,
          quality |-> "ok"]

\* the checks of processPost on the text: the functions called, in order,
\* and the first check that rejects the text ("ok" when none does)
TextChecks(text) ==
    IF Len(Fields(text, <<>>)) < 4
    THEN [calls |-> <<"strings.Fields">>, quality |-> "short"]
    ELSE IF ~HasEnoughLetters(text)
    THEN [calls |-> <<"strings.Fields", "HasEnoughLetters">>, quality |-> "letters"]
    ELSE IF ContainsRepetitivePattern(text)
    THEN [calls |-> <<"strings.Fields", "HasEnoughLetters",
                      "ContainsRepetitivePattern">>,
          quality |-> "repetitive"]
    ELSE IF ContainsSpamContent(text)
    THEN [calls |-> <<"strings.Fields", "HasEnoughLetters",
                      "ContainsRepetitivePattern", "ContainsSpamContent">>,
          quality |-> "spam"]
    ELSE [calls |-> <<"strings.Fields", "HasEnoughLetters",
                      "ContainsRepetitivePattern", "ContainsSpamContent">>,
          quality |-> "ok"]

\* processPost on a record with the text and the declared languages: the
\* calls it makes and what it sends
processPostOnText(p, conf, text, langs) ==
    LET checks == TextChecks(text)
        record == [Readable |-> TRUE, Text |-> text, Quality |-> checks.quality,
                   Langs |-> langs, CreatedAtParses |-> TRUE]
        out    == processPost(p, conf, <<"at://", "did:plc:a", <<"app.bsky.feed.post", "3k">>>>,
                              record)
    IN  [calls  |-> checks.calls \o
                      (IF checks.quality = "ok" /\ p.config.RunLanguageDetection
                       THEN <<"DetectLanguage">> ELSE <<>>),
         events |-> out.events, gate |-> out.gate]

CascadeWords == { <<"a">>, <<"a", "b">>, <<"1">>, <<"#", "a">>, <<"x", "x", "x">> }

\* texts of up to MaxTextWords words with single spaces between them
CascadeTexts ==
    { JoinWords(words, <<" ">>) :
        words \in UNION { [1..n -> CascadeWords] : n \in 3..MaxTextWords } }

CascadeProcessors ==
    { p \in PostProcessors :
        p.config.Languages = <<"nb">> /\ p.config.ConfidenceThreshold = 60 }

CascadeConfidences ==
    { c \in Confidences : c["Afrikaans"] = 0 /\ c["English"] = 0 /\ c["Bokmal"] > 0 }

InitCascade ==
    /\ FeedIdle /\ StoreIdle /\ StreamIdle /\ QueryIdle /\ ConfigIdle /\ ProcessIdle
    /\ PipeIdle /\ MoreIdle
    /\ fn \in { [pc |-> "processPost", p |-> p, conf |-> c, in |-> t, langs |-> l] :
                  p \in CascadeProcessors, c \in CascadeConfidences,
                  t \in CascadeTexts, l \in {<<>>, <<"nb">>} }

CallProcessPost ==
    /\ fn.pc = "processPost"
    /\ fn' = [fn EXCEPT !.pc = "processPostDone"] @@
             [out |-> processPostOnText(fn.p, fn.conf, fn.in, fn.langs)]
    /\ FnFrame

NextCascade == CallProcessPost

SpecCascade == InitCascade /\ [][NextCascade]_vars

(***************************************************************************)
(* Properties of SpecCascade                                               *)
(***************************************************************************)
CascadeOrder ==
    <<"strings.Fields", "HasEnoughLetters", "ContainsRepetitivePattern",
      "ContainsSpamContent", "DetectLanguage">>

\* whether the text passes the i-th check of the cascade
PassesCheck(text, i) ==
    CASE i = 1 -> Len(Fields(text, <<>>)) >= 4
      [] i = 2 -> HasEnoughLetters(text)
      [] i = 3 -> ~ContainsRepetitivePattern(text)
      [] i = 4 -> ~ContainsSpamContent(text)

\* C34: the calls are made in the order word count, letter ratio,
\* repetitive pattern, spam, detector; no call follows a check that rejects;
\* a rejected post causes no detector call and no event; a post that passes
\* the four checks reaches the detector when detection is enabled.
C34_CascadeOrderAndShortCircuit ==
    fn.pc = "processPostDone" =>
        LET calls == fn.out.calls
        IN  /\ Len(calls) <= Len(CascadeOrder)
            /\ \A i \in 1..Len(calls) : calls[i] = CascadeOrder[i]
            /\ \A i \in 1..4 :
                  (i <= Len(calls) /\ ~PassesCheck(fn.in, i)) => Len(calls) = i
            /\ (\E i \in 1..4 : ~PassesCheck(fn.in, i))
                  => (~Contains(calls, "DetectLanguage") /\ fn.out.events = <<>>)
            /\ ((\A i \in 1..4 : PassesCheck(fn.in, i))
                    /\ fn.p.config.RunLanguageDetection)
                  => calls = CascadeOrder

\* a text with too few letters that also holds spam was rejected by the
\* letter check, before the spam check was called
C34_Witness ==
    /\ fn.pc = "processPostDone"
    /\ fn.p.config.RunLanguageDetection
    /\ ~PassesCheck(fn.in, 2) /\ ~PassesCheck(fn.in, 4)
    /\ fn.out.calls = <<"strings.Fields", "HasEnoughLetters">>
    /\ fn.out.events = <<>>

(***************************************************************************)
(* SpecDetect: one call of PostProcessor.DetectLanguage, with the slices   *)
(* told apart from their backing arrays.  A slice is [array, len]; mem     *)
(* maps each array to its elements, up to its capacity.                    *)
(***************************************************************************)
\* the elements of a slice
Elems(mem, slice) == SubSeq(mem[slice.array], 1, slice.len)

\* a DetectLanguage that appends to the slice it was given
DetectLanguageInPlace(mem, currentLangs, conf, threshold, targetLangs) ==
    LET r == DetectLanguage(conf, threshold, Elems(mem, currentLangs), targetLangs)
        array == currentLangs.array
    IN  IF ~r.ok \/ Len(r.langs) = currentLangs.len
        THEN [ok |-> r.ok, langs |-> currentLangs, mem |-> mem, detected |-> r.detected]
        ELSE IF currentLangs.len < Len(mem[array])
        THEN [ok |-> TRUE, langs |-> [array |-> array, len |-> Len(r.langs)],
              mem |-> [mem EXCEPT ![array][Len(r.langs)] = r.langs[Len(r.langs)]],
              detected |-> r.detected]
        ELSE [ok |-> TRUE, langs |-> [array |-> "updatedLangs", len |-> Len(r.langs)],
              mem |-> mem @@ ("updatedLangs" :> r.langs), detected |-> r.detected]

\* DetectLanguage on slices: rejected, it returns the slice it was given;
\* accepted, it returns a slice of a new array (make, copy, append)
DetectLanguageOnSlices(mem, currentLangs, conf, threshold, targetLangs) ==
    LET r == DetectLanguage(conf, threshold, Elems(mem, currentLangs), targetLangs)
    IN  IF ~r.ok
        THEN [ok |-> FALSE, langs |-> currentLangs, mem |-> mem, detected |-> r.detected]
        ELSE [ok |-> TRUE, langs |-> [array |-> "updatedLangs", len |-> Len(r.langs)],
              mem |-> mem @@ ("updatedLangs" :> r.langs), detected |-> r.detected]

DetectProcessors == { p \in PostProcessors : p.config.RunLanguageDetection }

\* declared language lists, some with a duplicate, and the spare capacity of
\* the array behind them
DeclaredLangs == { <<>>, <<"nb">>, <<"en">>, <<"de", "nb">>, <<"nb", "de", "nb">> }

InitDetect ==
    /\ FeedIdle /\ StoreIdle /\ StreamIdle /\ QueryIdle /\ ConfigIdle /\ ProcessIdle
    /\ PipeIdle /\ MoreIdle
    /\ fn \in { [pc |-> "DetectLanguage", p |-> p, conf |-> c,
                 langs |-> [array |-> "record.Langs", len |-> Len(l)],
                 mem |-> [a \in {"record.Langs"} |-> l \o [i \in 1..spare |-> ""]]] :
                  p \in DetectProcessors, c \in Confidences, l \in DeclaredLangs,
                  spare \in 0..1 }

CallDetectLanguage ==
    /\ fn.pc = "DetectLanguage"
    /\ fn' = [fn EXCEPT !.pc = "DetectLanguageDone"] @@
             [out |-> DetectLanguageOnSlices(fn.mem, fn.langs, fn.conf,
                                             fn.p.config.ConfidenceThreshold,
                                             fn.p.targetLanguages)]
    /\ FnFrame

NextDetect == CallDetectLanguage

SpecDetect == InitDetect /\ [][NextDetect]_vars

(***************************************************************************)
(* Properties of SpecDetect                                                *)
(***************************************************************************)
\* C35: for an accepted post the resulting list is the declared list, in
\* its order, followed by the ISO code of the detected language if and only
\* if the declared list does not hold that code; and the array behind the
\* caller's declared list is as it was.
C35_DetectedCodeAppendedOnce ==
    (fn.pc = "DetectLanguageDone" /\ fn.out.ok) =>
        LET declared == Elems(fn.mem, fn.langs)
            result   == Elems(fn.out.mem, fn.out.langs)
            code     == supportedLanguages[fn.out.detected.detectedLang]
        IN  /\ result = IF Contains(declared, code) THEN declared
                        ELSE Append(declared, code)
            /\ fn.out.mem["record.Langs"] = fn.mem["record.Langs"]

\* a post that declares "de" and "nb" in an array with spare room was
\* detected as a language it does not declare, and the code was appended
C35_Witness ==
    /\ fn.pc = "DetectLanguageDone" /\ fn.out.ok
    /\ Elems(fn.mem, fn.langs) = <<"de", "nb">>
    /\ Len(fn.mem["record.Langs"]) = 3
    /\ fn.out.langs.len = 3

(***************************************************************************)
(* SpecSQL: the SQL text and the argument vector of FeedQueryBuilder.Build *)
(* for two feeds of the same structure.  A text is a sequence of pieces:   *)
(* Lit is text written in the code, Arg the placeholder of an argument,    *)
(* Text and Num are values the code prints into the text.                  *)
(***************************************************************************)
Lit(s) == [lit |-> s]

Arg(n) == [arg |-> n]

Text(v) == [text |-> v]

Num(n) == [num |-> n]

\* LanguageFilter, ExcludeRepliesFilter, KeywordFilter: ApplyFilter on the
\* select builder sb = [where, args]
ApplyFilterSQL(f, sb) ==
    CASE f.type = "language" ->
           IF Len(f.languages) > 0
           THEN [where |-> Append(sb.where,
                               <<Lit("languages && "), Arg(Len(sb.args) + 1)>>),
                 args  |-> Append(sb.args, f.languages)]
           ELSE sb
      [] f.type = "exclude_replies" ->
           [sb EXCEPT !.where = Append(@, <<Lit("posts.parent_uri IS NULL")>>)]
      [] f.type = "keyword" ->
           [sb EXCEPT !.where =
               @ \o (IF f.IncludeKeywords # <<>>
                     THEN << <<Lit("ts_vector @@ websearch_to_tsquery('simple', '"),
                               Text(f.IncludeKeywords), Lit("')")>> >>
                     ELSE <<>>)
                 \o (IF f.ExcludeKeywords # <<>>
                     THEN << <<Lit("NOT (ts_vector @@ websearch_to_tsquery('simple', '"),
                               Text(f.ExcludeKeywords), Lit("'))")>> >>
                     ELSE <<>>)]

\* TimeDecayScoring, KeywordScoring, AuthorScoring: the text ApplyScoring
\* writes
ApplyScoringSQL(layer) ==
    CASE layer.type = "time_decay" ->
           <<Lit("(1.0 + (EXTRACT(EPOCH FROM (NOW() - created_at)) / 86400.0))^(-0.5)")>>
      [] layer.type = "keyword" ->
           <<Lit("ts_rank(ts_vector, websearch_to_tsquery('simple', '"),
             Text(layer.Keywords),
             Lit("'))/(1 + ts_rank(ts_vector, websearch_to_tsquery('simple', '"),
             Text(layer.Keywords), Lit("')))")>>
      [] layer.type = "author" ->
           <<Lit("(")>>
           \o Join([ i \in 1..Len(layer.Authors) |->
                       <<Lit("CASE WHEN author_did = '"), Text(layer.Authors[i].DID),
                         Lit("' THEN "), Num(FormatWeight(layer.Authors[i].Weight)),
                         Lit(" ELSE 1.0 END")>> ],
                   <<Lit(" * ")>>)
           \o <<Lit(")")>>

RECURSIVE ApplyFiltersSQL(_, _)
ApplyFiltersSQL(filters, sb) ==
    IF filters = <<>> THEN sb
    ELSE ApplyFiltersSQL(Tail(filters), ApplyFilterSQL(Head(filters), sb))

\* Build: the text and the arguments of the statement
BuildSQL(b, limit, cursor) ==
    LET scoreTerms == [ i \in 1..Len(b.scoringLayers) |->
                          <<Lit("("), Num(FormatWeight(b.scoringLayers[i].weight)),
                            Lit(" * (")>>
                          \o ApplyScoringSQL(b.scoringLayers[i]) \o <<Lit("))")>> ]
        filtered == ApplyFiltersSQL(b.filters, [where |-> <<>>, args |-> <<>>])
        sb == IF cursor # 0
              THEN [where |-> Append(filtered.where,
                                  <<Lit("posts.id < "), Arg(Len(filtered.args) + 1)>>),
                    args  |-> Append(filtered.args, cursor)]
              ELSE filtered
    IN  [sql |->
            <<Lit("SELECT posts.id, posts.uri")>>
            \o (IF Len(b.scoringLayers) > 0
                THEN <<Lit(", (")>> \o Join(scoreTerms, <<Lit(" + ")>>)
                     \o <<Lit(") AS score")>>
                ELSE <<>>)
            \o <<Lit(" FROM posts")>>
            \o (IF sb.where # <<>>
                THEN <<Lit(" WHERE ")>> \o Join(sb.where, <<Lit(" AND ")>>)
                ELSE <<>>)
            \o (IF Len(b.scoringLayers) > 0
                THEN <<Lit(" ORDER BY score DESC, posts.id DESC")>>
                ELSE <<Lit(" ORDER BY posts.id DESC")>>)
            \o <<Lit(" LIMIT "), Arg(Len(sb.args) + 1)>>,
         args |-> Append(sb.args, limit)]

\* the builder InitializeFeeds makes for a feed
BuilderOf(feedConfig, keywords) ==
    AddScoringLayers(AddFilters(NewFeedQueryBuilder, feedConfig.Filters, keywords).builder,
                     feedConfig.Scoring, keywords).builder

SqlFilters ==
    { <<>>,
      <<TomlFilter("language", <<"nb">>, <<>>, <<>>)>>,
      <<TomlFilter("language", <<"en", "nn">>, <<>>, <<>>)>>,
      <<TomlFilter("keyword", <<>>, <<"ski">>, <<>>)>>,
      <<TomlFilter("keyword", <<>>, <<"spam">>, <<>>)>> }

SqlScorings ==
    { <<>>,
      <<Decay(Thousandth)>>,
      <<TomlScoring("keyword", Thousandth, "ski", <<>>)>>,
      <<TomlScoring("keyword", Thousandth, "spam", <<>>)>>,
      <<TomlScoring("author", Thousandth, "", <<[DID |-> "did:plc:a", Weight |-> 2 * One]>>)>>,
      <<TomlScoring("author", Thousandth, "", <<[DID |-> "did:plc:b", Weight |-> 2 * One]>>)>>,
      <<TomlScoring("author", Thousandth, "", <<[DID |-> "did:plc:a", Weight |-> 3 * One]>>)>> }

SqlFeeds ==
    { [Id |-> "feed", Filters |-> f, Scoring |-> sc] : f \in SqlFilters, sc \in SqlScorings }

\* the same kinds of filters and of scoring layers, in the same order, with
\* as many authors
SameStructure(a, b) ==
    /\ Len(a.Filters) = Len(b.Filters)
    /\ \A i \in 1..Len(a.Filters) : a.Filters[i].Type = b.Filters[i].Type
    /\ Len(a.Scoring) = Len(b.Scoring)
    /\ \A i \in 1..Len(a.Scoring) :
          /\ a.Scoring[i].Type = b.Scoring[i].Type
          /\ Len(a.Scoring[i].Authors) = Len(b.Scoring[i].Authors)

InitSQL ==
    /\ FeedIdle /\ StoreIdle /\ StreamIdle /\ QueryIdle /\ ConfigIdle /\ ProcessIdle
    /\ PipeIdle /\ MoreIdle
    /\ fn \in { [pc |-> "Build", a |-> pair[1], b |-> pair[2]] :
                  pair \in { pr \in SqlFeeds \X SqlFeeds : SameStructure(pr[1], pr[2]) } }

CallBuild(limit) ==
    /\ fn.pc = "Build"
    /\ fn' = [pc |-> "BuildDone", a |-> fn.a, b |-> fn.b,
              out |-> [a |-> BuildSQL(BuilderOf(fn.a, QueryKeywords), limit, 0),
                       b |-> BuildSQL(BuilderOf(fn.b, QueryKeywords), limit, 0)]]
    /\ FnFrame

NextSQL == \E limit \in {1, 20} : CallBuild(limit)

SpecSQL == InitSQL /\ [][NextSQL]_vars

(***************************************************************************)
(* Properties of SpecSQL                                                   *)
(***************************************************************************)
\* C36: two feeds of the same structure, whatever their keywords, language
\* codes, author DIDs and weights, yield the same SQL text.
C36_SqlTextIndependentOfValues ==
    fn.pc = "BuildDone" => fn.out.a.sql = fn.out.b.sql

(***************************************************************************)
(* SpecCast: the SSE Broadcaster (server/server.go).  The operations that  *)
(* take the mutex are one step each; BroadcastCreatePost takes no lock, so *)
(* every pass of its loop is two steps: the map is read, then the send.    *)
(* A send on a closed channel and the close of a closed channel panic.     *)
(***************************************************************************)
Clients == 1..MaxClients

OpenChan == [closed |-> FALSE, len |-> 0]

\* NewBroadcaster; no SSE request has come in
InitCast ==
    /\ FeedIdle /\ StoreIdle /\ StreamIdle /\ QueryIdle /\ ConfigIdle /\ ProcessIdle
    /\ FnIdle /\ PipeIdle /\ ConnIdle /\ ResumeIdle /\ CmdIdle
    /\ cast = [state |-> "running", registered |-> {},
               createPostClients |-> {}, statisticsClients |-> {},
               createPostChan |-> [k \in Clients |-> OpenChan],
               statisticsChan |-> [k \in Clients |-> OpenChan],
               broadcast |-> [pc |-> "idle", visited |-> {}, key |-> 0],
               shutdown |-> FALSE, sendOnClosed |-> FALSE, closedTwice |-> FALSE,
               dropped |-> FALSE]

\* select { case client <- event: default: } on a channel
TrySend(ch) ==
    IF ch.closed THEN [ch |-> ch, panic |-> TRUE, dropped |-> FALSE]
    ELSE IF ch.len < SseChanCap
    THEN [ch |-> [ch EXCEPT !.len = @ + 1], panic |-> FALSE, dropped |-> FALSE]
    ELSE [ch |-> ch, panic |-> FALSE, dropped |-> TRUE]

\* the SSE handler of a new request: the key is new, the channels are made,
\* AddClient puts them into both maps
CastAddClient(k) ==
    /\ cast.state = "running"
    /\ k \notin cast.registered
    /\ cast' = [cast EXCEPT !.registered = @ \cup {k},
                            !.createPostClients = @ \cup {k},
                            !.statisticsClients = @ \cup {k}]
    /\ CastFrame

\* RemoveClient(key), from the cleanup of the SSE handler or from the DELETE
\* route: each channel found in its map is closed and deleted
CastRemoveClient(k) ==
    /\ cast.state = "running"
    /\ LET inPosts == k \in cast.createPostClients
           inStats == k \in cast.statisticsClients
           twice   == \/ inPosts /\ cast.createPostChan[k].closed
                      \/ inStats /\ cast.statisticsChan[k].closed
       IN  cast' = [cast EXCEPT
               !.createPostClients = @ \ {k},
               !.statisticsClients = @ \ {k},
               !.createPostChan[k].closed = @ \/ inPosts,
               !.statisticsChan[k].closed = @ \/ inStats,
               !.closedTwice = @ \/ twice,
               !.state = IF twice THEN "panicked" ELSE @]
    /\ CastFrame

\* Shutdown: every channel of createPostClients is closed; the map keeps it
CastShutdown ==
    /\ cast.state = "running"
    /\ ~cast.shutdown
    /\ LET twice == \E k \in cast.createPostClients : cast.createPostChan[k].closed
       IN  cast' = [cast EXCEPT
               !.shutdown = TRUE,
               !.createPostChan = [k \in Clients |->
                                     IF k \in cast.createPostClients
                                     THEN [@[k] EXCEPT !.closed = TRUE] ELSE @[k]],
               !.closedTwice = @ \/ twice,
               !.state = IF twice THEN "panicked" ELSE @]
    /\ CastFrame

\* BroadcastCreatePost is called
CastBroadcastCreatePost ==
    /\ cast.state = "running"
    /\ cast.broadcast.pc = "idle"
    /\ cast' = [cast EXCEPT !.broadcast = [pc |-> "range", visited |-> {}, key |-> 0]]
    /\ CastFrame

\* for id, client := range b.createPostClients: the next entry of the map as
\* it is now
CastRangeNext(k) ==
    /\ cast.state = "running"
    /\ cast.broadcast.pc = "range"
    /\ k \in cast.createPostClients \ cast.broadcast.visited
    /\ cast' = [cast EXCEPT !.broadcast = [pc |-> "send", visited |-> @.visited \cup {k},
                                           key |-> k]]
    /\ CastFrame

\* the map has no further entry: BroadcastCreatePost returns
CastRangeDone ==
    /\ cast.state = "running"
    /\ cast.broadcast.pc = "range"
    /\ cast.createPostClients \ cast.broadcast.visited = {}
    /\ cast' = [cast EXCEPT !.broadcast.pc = "idle"]
    /\ CastFrame

\* select { case client <- post: default: } on the channel read from the map
CastSend ==
    /\ cast.state = "running"
    /\ cast.broadcast.pc = "send"
    /\ LET k == cast.broadcast.key
           sent == TrySend(cast.createPostChan[k])
       IN  cast' = [cast EXCEPT !.createPostChan[k] = sent.ch,
                                !.broadcast.pc = "range",
                                !.sendOnClosed = @ \/ sent.panic,
                                !.dropped = @ \/ sent.dropped,
                                !.state = IF sent.panic THEN "panicked" ELSE @]
    /\ CastFrame

\* BroadcastStatistics: under the read lock, a send to every client
CastBroadcastStatistics ==
    /\ cast.state = "running"
    /\ LET sent == [k \in Clients |-> TrySend(cast.statisticsChan[k])]
           panic == \E k \in cast.statisticsClients : sent[k].panic
       IN  cast' = [cast EXCEPT
               !.statisticsChan = [k \in Clients |->
                                     IF k \in cast.statisticsClients
                                     THEN sent[k].ch ELSE @[k]],
               !.sendOnClosed = @ \/ panic,
               !.dropped = @ \/ \E k \in cast.statisticsClients : sent[k].dropped,
               !.state = IF panic THEN "panicked" ELSE @]
    /\ CastFrame

\* the streaming loop of the SSE handler of client k takes an event from one
\* of its channels
CastReceive(k) ==
    /\ cast.state = "running"
    /\ k \in cast.registered
    /\ \/ /\ cast.createPostChan[k].len > 0
          /\ cast' = [cast EXCEPT !.createPostChan[k].len = @ - 1]
       \/ /\ cast.statisticsChan[k].len > 0
          /\ cast' = [cast EXCEPT !.statisticsChan[k].len = @ - 1]
    /\ CastFrame

NextCast ==
    \/ \E k \in Clients : CastAddClient(k)
    \/ \E k \in Clients : CastRemoveClient(k)
    \/ CastShutdown
    \/ CastBroadcastCreatePost
    \/ \E k \in Clients : CastRangeNext(k)
    \/ CastRangeDone
    \/ CastSend
    \/ CastBroadcastStatistics
    \/ \E k \in Clients : CastReceive(k)

SpecCast == InitCast /\ [][NextCast]_vars

(***************************************************************************)
(* Properties of SpecCast                                                  *)
(***************************************************************************)
\* C37: no send is made on a closed client channel and no client channel is
\* closed twice.
C37_NoSendOnClosedNoDoubleClose == ~cast.sendOnClosed /\ ~cast.closedTwice

(***************************************************************************)
(* SpecCmd: the Action of subscribeCmd (cmd/subscribe.go) with the workers *)
(* of the subscription it starts.  postChan has no buffer: a send goes     *)
(* through when the printing goroutine receives.  A send on the closed     *)
(* channel panics.                                                         *)
(***************************************************************************)
\* postChan is made, Subscribe has started its workers, the printing
\* goroutine ranges over postChan, the Action waits in its select
InitCmd ==
    /\ FeedIdle /\ StoreIdle /\ StreamIdle /\ QueryIdle /\ ConfigIdle /\ ProcessIdle
    /\ FnIdle /\ PipeIdle /\ ConnIdle /\ ResumeIdle /\ CastIdle
    /\ cmd = [state |-> "running", action |-> "select", signal |-> FALSE,
              ctxDone |-> FALSE, postChan |-> "open",
              worker |-> [w \in Workers |-> "idle"], printer |-> "range",
              sendOnClosed |-> FALSE]

\* SIGINT or SIGTERM is delivered to sigChan
CmdSignal ==
    /\ cmd.state = "running" /\ ~cmd.signal
    /\ cmd' = [cmd EXCEPT !.signal = TRUE]
    /\ CmdFrame

\* the context of the command is cancelled
CmdCancel ==
    /\ cmd.state = "running" /\ ~cmd.ctxDone
    /\ cmd' = [cmd EXCEPT !.ctxDone = TRUE]
    /\ CmdFrame

\* the select of the Action returns; ticker.Stop(); close(postChan)
CmdClose ==
    /\ cmd.state = "running" /\ cmd.action = "select"
    /\ cmd.signal \/ cmd.ctxDone
    /\ cmd' = [cmd EXCEPT !.action = "closed", !.postChan = "closed"]
    /\ CmdFrame

\* return nil: the command ends and the process with it
CmdReturn ==
    /\ cmd.state = "running" /\ cmd.action = "closed"
    /\ cmd' = [cmd EXCEPT !.action = "returned", !.state = "exited"]
    /\ CmdFrame

\* worker w takes a message from its queue and processPost accepts the
\* post: it is about to send the ProcessSeqEvent
CmdAccept(w) ==
    /\ cmd.state = "running" /\ cmd.worker[w] = "idle"
    /\ cmd' = [cmd EXCEPT !.worker[w] = "sendSeq"]
    /\ CmdFrame

\* startWorker, case <-pp.ctx.Done()
CmdWorkerStop(w) ==
    /\ cmd.state = "running" /\ cmd.worker[w] = "idle" /\ cmd.ctxDone
    /\ cmd' = [cmd EXCEPT !.worker[w] = "exited"]
    /\ CmdFrame

\* p.postChan <- event, the ProcessSeqEvent and then the CreatePostEvent: on
\* the closed channel it panics; else it goes through when the printing
\* goroutine receives, which then returns if the context is done
CmdSend(w) ==
    /\ cmd.state = "running" /\ cmd.worker[w] \in {"sendSeq", "sendPost"}
    /\ IF cmd.postChan = "closed"
       THEN cmd' = [cmd EXCEPT !.sendOnClosed = TRUE, !.state = "panicked"]
       ELSE /\ cmd.printer = "range"
            /\ cmd' = [cmd EXCEPT
                   !.worker[w] = IF @ = "sendSeq" THEN "sendPost" ELSE "idle",
                   !.printer = IF cmd.ctxDone THEN "exited" ELSE "range"]
    /\ CmdFrame

\* for message := range postChan ends on the closed channel
CmdPrinterEnds ==
    /\ cmd.state = "running" /\ cmd.printer = "range" /\ cmd.postChan = "closed"
    /\ cmd' = [cmd EXCEPT !.printer = "exited"]
    /\ CmdFrame

NextCmd ==
    \/ CmdSignal
    \/ CmdCancel
    \/ CmdClose
    \/ CmdReturn
    \/ \E w \in Workers : CmdAccept(w)
    \/ \E w \in Workers : CmdWorkerStop(w)
    \/ \E w \in Workers : CmdSend(w)
    \/ CmdPrinterEnds

SpecCmd == InitCmd /\ [][NextCmd]_vars

====
